---- MODULE Spec2Model ----
(***************************************************************************)
(* A model of the retrieval engine of deepagents_mcp_rag: the retrieval    *)
(* pipeline wrapper (BaseRetriever.retrieve), the retrieval strategies     *)
(* and the ensemble's Reciprocal Rank Fusion.                              *)
(*                                                                         *)
(* A Document is a record [page_content, metadata].  page_content is a    *)
(* triple <<first 500 characters, characters 500..1000, the rest>>, so     *)
(* that the two prefixes the code hashes ([:500], [:1000]) are distinct    *)
(* projections.  metadata is a function from key strings to values (a      *)
(* Python dict).  Python's hash() of a string is modelled as the string    *)
(* itself (no collisions).  RRF scores are kept exact, as numerators over  *)
(* the common denominator RRFDen; the code adds IEEE doubles.              *)
(***************************************************************************)
EXTENDS Integers, Sequences, FiniteSets, TLC

VARIABLES
    retriever,  \* the retriever under test: its configuration and its lazy fields
    cache,      \* the Redis store behind CacheClient: key -> cached value
    last,       \* the last completed retrieve on it, as its caller saw it
    ens,        \* an EnsembleRetriever object's fields
    run,        \* a retrieve of ens in progress (sub-strategy fan-out)
    hist        \* the configuration calls made on ens, newest last

vars == <<retriever, cache, last, ens, run, hist>>

(***************************************************************************)
(* Bounds of the model.                                                    *)
(***************************************************************************)
MaxK == 2        \* the configured k ranges over 1..MaxK
MaxHits == 2     \* longest list an external adapter answers with

(***************************************************************************)
(* Generic helpers.                                                        *)
(***************************************************************************)
Range(s) == {s[i] : i \in DOMAIN s}

Min(a, b) == IF a <= b THEN a ELSE b

Max(a, b) == IF a >= b THEN a ELSE b

\* s[:n] of a Python list
Take(s, n) == SubSeq(s, 1, Min(Len(s), n))

\* all sequences over S of length 0..n
SeqsUpTo(S, n) == UNION {[1..m -> S] : m \in 0..n}

\* dict.get(key, default)
DictGet(d, key, default) == IF key \in DOMAIN d THEN d[key] ELSE default

\* d.copy() followed by d.update(u): u's keys win
DictUpdate(d, u) ==
    [key \in (DOMAIN d) \cup (DOMAIN u) |-> IF key \in DOMAIN u THEN u[key] ELSE d[key]]

EmptyDict == [key \in {} |-> 0]

(***************************************************************************)
(* Documents an external store can hold.  DocA and DocA2 agree in source   *)
(* and in the first 1000 characters (DocA2 has one more metadata key);     *)
(* DocT differs from DocA only after character 1000; DocM differs from     *)
(* DocA between characters 500 and 1000; DocN has no source, and was       *)
(* ingested with a metadata key named "rank".                              *)
(***************************************************************************)
DocA  == [page_content |-> <<"a", "x", "t">>, metadata |-> [source |-> "s1"]]
DocA2 == [page_content |-> <<"a", "x", "t">>, metadata |-> [source |-> "s1", title |-> "T"]]
DocT  == [page_content |-> <<"a", "x", "u">>, metadata |-> [source |-> "s1"]]
DocM  == [page_content |-> <<"a", "y", "t">>, metadata |-> [source |-> "s1"]]
DocB  == [page_content |-> <<"b", "x", "t">>, metadata |-> [source |-> "s2"]]
DocN  == [page_content |-> <<"a", "x", "t">>, metadata |-> [rank |-> 7]]

StoreDocs == {DocA, DocA2, DocB, DocN}

Queries == {"q1", "q2"}

\* page_content[:500] and page_content[:1000]
Prefix500(doc) == <<doc.page_content[1]>>

Prefix1000(doc) == <<doc.page_content[1], doc.page_content[2]>>

(***************************************************************************)
(* The cache (utils/cache.py) as the pipeline wrapper reaches it.          *)
(***************************************************************************)
\* get_cache_client is declared "async def" and base.py calls it without await
\* (cache_client = get_cache_client()): the name is bound to a coroutine object,
\* not to the CacheClient the coroutine would produce.
get_cache_client == "coroutine"

\* f"retrieval:{strategy_name}:{hash(query)}:{k}"
CacheKey(strategy_name, query, self_k) == <<"retrieval", strategy_name, query, self_k>>

\* CacheClient.get: the unpickled value, or None (found = FALSE) when the key is
\* absent or Redis fails; it never raises.
CacheClient_get(store, key, redis_up) ==
    IF redis_up /\ key \in DOMAIN store
    THEN [raised |-> FALSE, found |-> TRUE, value |-> store[key]]
    ELSE [raised |-> FALSE, found |-> FALSE, value |-> <<>>]

\* CacheClient.set: setex of the pickled value; False and no change when Redis fails.
CacheClient_set(store, key, value, redis_up) ==
    IF redis_up
    THEN [raised |-> FALSE, store |-> [x \in (DOMAIN store) \cup {key} |->
                                          IF x = key THEN value ELSE store[x]]]
    ELSE [raised |-> FALSE, store |-> store]

\* "await cache_client.get(cache_key)": on a coroutine object the attribute
\* lookup raises AttributeError before any cache traffic.
CacheRead(client, store, key, redis_up) ==
    IF client = "coroutine"
    THEN [raised |-> TRUE, found |-> FALSE, value |-> <<>>]
    ELSE CacheClient_get(store, key, redis_up)

\* "await cache_client.set(cache_key, documents, ttl=self.cache_ttl)"
CacheWrite(client, store, key, value, redis_up) ==
    IF client = "coroutine"
    THEN [raised |-> TRUE, store |-> store]
    ELSE CacheClient_set(store, key, value, redis_up)

\* A mutant of CacheErrorEscapes: the exception leaves retrieve.
CacheErrorEscapes_Unhandled(raised) == raised

\* The handlers "except Exception as e: logger.warning(...)" around the cache
\* read and the cache write: whether an exception raised there leaves retrieve.
CacheErrorEscapes(raised) == FALSE

(***************************************************************************)
(* The pipeline wrapper, BaseRetriever.retrieve.                           *)
(***************************************************************************)
\* A mutant of CapToK: the cap is not applied.
CapToK_NoCap(documents, self_k) == documents

\* "if len(documents) > self.k: documents = documents[:self.k]"
CapToK(documents, self_k) ==
    IF Len(documents) > self_k THEN Take(documents, self_k) ELSE documents

\* RetrievalMetrics as handed to _log_metrics (latency and token count left out)
Metrics(strategy_name, query, documents, hit) ==
    [strategy |-> strategy_name, query |-> query,
     num_results |-> Len(documents), cache_hit |-> hit]

NoCacheAccess == [raised |-> FALSE, found |-> FALSE, value |-> <<>>]

\* retrieve(query) of a retriever with the given fields, where impl is what
\* _retrieve_impl(query) does when it is awaited: [raised, docs].  The result is
\* what the caller sees (outcome, docs), the metrics emitted, the cache accesses
\* made and the store afterwards.
retrieve(strategy_name, query, self_k, caching, store, redis_up, impl) ==
    LET key == CacheKey(strategy_name, query, self_k)
        rd  == IF caching THEN CacheRead(get_cache_client, store, key, redis_up)
               ELSE NoCacheAccess
        base == [strategy |-> strategy_name, query |-> query, k |-> self_k,
                 caching |-> caching,
                 cache_read |-> caching, cache_read_error |-> rd.raised,
                 cache_hit |-> FALSE, impl_ran |-> FALSE, impl_raised |-> FALSE,
                 impl_len |-> 0,
                 cache_write |-> FALSE, cache_write_error |-> FALSE,
                 outcome |-> "returned", docs |-> <<>>, metrics |-> <<>>,
                 store |-> store]
    IN  IF rd.raised /\ CacheErrorEscapes(rd.raised)
        THEN [base EXCEPT !.outcome = "raised"]
        ELSE IF ~rd.raised /\ rd.found /\ rd.value # <<>>
        THEN \* "if cached_result:": a cached non-empty list is returned as it is
             [base EXCEPT !.cache_hit = TRUE, !.docs = rd.value,
                          !.metrics = <<Metrics(strategy_name, query, rd.value, TRUE)>>]
        ELSE IF impl.raised
        THEN \* "except Exception as e: logger.error(...); raise"
             [base EXCEPT !.impl_ran = TRUE, !.impl_raised = TRUE, !.outcome = "raised"]
        ELSE LET documents == CapToK(impl.docs, self_k)
                 wr == IF caching
                       THEN CacheWrite(get_cache_client, store, key, documents, redis_up)
                       ELSE [raised |-> FALSE, store |-> store]
             IN  IF wr.raised /\ CacheErrorEscapes(wr.raised)
                 THEN [base EXCEPT !.impl_ran = TRUE, !.impl_len = Len(impl.docs),
                                   !.cache_write = TRUE, !.cache_write_error = TRUE,
                                   !.outcome = "raised"]
                 ELSE [base EXCEPT !.impl_ran = TRUE, !.impl_len = Len(impl.docs),
                                   !.cache_write = caching,
                                   !.cache_write_error = wr.raised,
                                   !.docs = documents,
                                   !.metrics = <<Metrics(strategy_name, query, documents, FALSE)>>,
                                   !.store = wr.store]

\* what a raising _retrieve_impl and a returning one look like
ImplRaised == [raised |-> TRUE, docs |-> <<>>]

ImplReturns(docs) == [raised |-> FALSE, docs |-> docs]

(***************************************************************************)
(* Ordering helpers.                                                       *)
(***************************************************************************)
\* x goes behind every element whose score is not smaller (sorted is descending)
InsertDesc(sorted, x) ==
    LET n == Cardinality({i \in DOMAIN sorted : sorted[i].score >= x.score})
    IN  SubSeq(sorted, 1, n) \o <<x>> \o SubSeq(sorted, n + 1, Len(sorted))

\* sorted(s, key=score, reverse=True): descending, equal scores keep their order
RECURSIVE SortDesc(_)
SortDesc(s) ==
    IF s = <<>> THEN <<>>
    ELSE InsertDesc(SortDesc(SubSeq(s, 1, Len(s) - 1)), s[Len(s)])

(***************************************************************************)
(* VectorRetriever (retrievers/vector.py).                                 *)
(***************************************************************************)
DefaultCollection == "deepagents_documents"

\* A mutant of VectorStamp: the rank is the hit's position in the unfiltered answer.
VectorStamp_RawPosition(doc, score, position, n_kept, collection) ==
    [doc EXCEPT !.metadata = DictUpdate(doc.metadata,
        [similarity_score |-> score, retrieval_strategy |-> "vector",
         rank |-> position, collection |-> collection])]

\* doc.metadata = doc.metadata.copy(); doc.metadata.update({...})
VectorStamp(doc, score, position, n_kept, collection) ==
    [doc EXCEPT !.metadata = DictUpdate(doc.metadata,
        [similarity_score |-> score, retrieval_strategy |-> "vector",
         rank |-> n_kept + 1, collection |-> collection])]

\* the loop "for doc, score in results: if score >= threshold: ..."
RECURSIVE VectorFilter(_, _, _, _, _)
VectorFilter(hits, i, threshold, collection, filtered) ==
    IF i > Len(hits) THEN filtered
    ELSE VectorFilter(hits, i + 1, threshold, collection,
            IF hits[i].score >= threshold
            THEN Append(filtered,
                        VectorStamp(hits[i].doc, hits[i].score, i, Len(filtered), collection))
            ELSE filtered)

\* A mutant of VectorRetriever_impl: a failure of the store leaves _retrieve_impl.
VectorRetriever_impl_Propagates(store, answer, threshold, collection) ==
    IF store = "None" \/ answer.raised THEN [raised |-> TRUE, docs |-> <<>>]
    ELSE [raised |-> FALSE,
          docs |-> VectorFilter(answer.hits, 1, threshold, collection, <<>>)]

\* VectorRetriever._retrieve_impl, where store is self._vector_store after
\* _ensure_vector_store and answer is what asimilarity_search_with_score(query,
\* k=self.k) does: [raised, hits].  Every failure is logged and becomes [].
VectorRetriever_impl(store, answer, threshold, collection) ==
    IF store = "None" THEN ImplReturns(<<>>)
    ELSE IF answer.raised THEN ImplReturns(<<>>)
    ELSE ImplReturns(VectorFilter(answer.hits, 1, threshold, collection, <<>>))

\* what a vector store asked for n hits can answer
Hit(doc, score) == [doc |-> doc, score |-> score]

SimilarityScores == {0, 1}

StoreRaises == [raised |-> TRUE, hits |-> <<>>]

StoreAnswers(n) ==
    {StoreRaises} \cup
    {[raised |-> FALSE, hits |-> h] :
        h \in SeqsUpTo({Hit(DocA, 1), Hit(DocB, 1), Hit(DocN, 0)}, Min(n, MaxHits))}

(***************************************************************************)
(* BM25Retriever (retrievers/bm25.py).                                     *)
(***************************************************************************)
\* A mutant of get_document_store: the call is awaited and gives the store.
get_document_store_Awaited == "DocumentStore"

\* get_document_store is declared "async def" and _ensure_index_loaded calls it
\* without await (doc_store = get_document_store()): a coroutine object.
get_document_store == "coroutine"

\* BM25Retriever._ensure_index_loaded on an instance whose index is None:
\* "await doc_store.get_all_documents()" raises AttributeError on a coroutine
\* object, and the handler leaves _documents = [] and _bm25_index = None.
EnsureIndexLoaded(doc_store, stored) ==
    IF doc_store = "coroutine" THEN [bm25_index |-> "None", documents |-> <<>>]
    ELSE IF stored = <<>> THEN [bm25_index |-> "None", documents |-> <<>>]
    ELSE [bm25_index |-> "BM25Okapi", documents |-> stored]

\* the result loop over top_indices: positive scores only, rank = len(results) + 1
RECURSIVE BM25Results(_, _, _)
BM25Results(top, i, results) ==
    IF i > Len(top) THEN results
    ELSE BM25Results(top, i + 1,
            IF top[i].score > 0
            THEN Append(results, [top[i].doc EXCEPT !.metadata =
                    DictUpdate(top[i].doc.metadata,
                        [bm25_score |-> top[i].score, retrieval_strategy |-> "bm25",
                         rank |-> Len(results) + 1])])
            ELSE results)

\* BM25Retriever._retrieve_impl; scores[i] is get_scores(query_tokens)[i]
BM25Retriever_impl(loaded, scores, self_k) ==
    IF loaded.bm25_index = "None" \/ loaded.documents = <<>> THEN ImplReturns(<<>>)
    ELSE LET scored == [i \in DOMAIN loaded.documents |->
                            [doc |-> loaded.documents[i], score |-> scores[i]]]
         IN  ImplReturns(BM25Results(Take(SortDesc(scored), self_k), 1, <<>>))

(***************************************************************************)
(* ParentDocRetriever (retrievers/parent_doc.py).                          *)
(***************************************************************************)
ChildChunkSize == 400

ParentChunkSize == 2000

\* the loop "for i, doc in enumerate(documents)" after documents[:self.k]
ParentDocStamp(documents, collection) ==
    [i \in DOMAIN documents |-> [documents[i] EXCEPT !.metadata =
        DictUpdate(documents[i].metadata,
            [retrieval_strategy |-> "parent_doc", rank |-> i,
             child_chunk_size |-> ChildChunkSize, parent_chunk_size |-> ParentChunkSize,
             collection |-> collection])]]

\* ParentDocRetriever._retrieve_impl; parent is self._parent_retriever after
\* _ensure_retriever_initialized, answer what aget_relevant_documents does
ParentDocRetriever_impl(parent, answer, self_k, collection) ==
    IF parent = "None" THEN ImplReturns(<<>>)
    ELSE IF answer.raised THEN ImplReturns(<<>>)
    ELSE ImplReturns(ParentDocStamp(Take(answer.docs, self_k), collection))

\* what a LangChain retriever can answer: it raises, or returns some documents
RetrieverAnswers == {ImplRaised} \cup {ImplReturns(d) : d \in SeqsUpTo(StoreDocs, MaxHits)}

(***************************************************************************)
(* RerankRetriever (retrievers/rerank.py).                                 *)
(***************************************************************************)
DefaultInitialK == 20

\* self.initial_k = max(initial_k, k * 2)
InitialK(self_k) == Max(DefaultInitialK, self_k * 2)

\* A word of an LLM reply: "3" (digits), "3." / "3)" / "3," (punct: digits once
\* the trailing ".,)" are stripped), a word that str.isdigit() accepts and
\* int() rejects, such as a superscript two (superscript), or anything else
\* (other).
Word(kind, num) == [kind |-> kind, num |-> num]

\* the scan of one line: the first word that is a number in 1..num_docs and not
\* yet ranked is appended and ends the line
RECURSIVE ParseLine(_, _, _, _)
ParseLine(line, i, num_docs, ranking) ==
    IF i > Len(line) THEN ranking
    ELSE IF line[i].kind \in {"digits", "punct"}
            /\ 1 <= line[i].num /\ line[i].num <= num_docs
            /\ line[i].num \notin Range(ranking)
         THEN Append(ranking, line[i].num)
         ELSE ParseLine(line, i + 1, num_docs, ranking)

RECURSIVE ParseLines(_, _, _, _)
ParseLines(lines, i, num_docs, ranking) ==
    IF i > Len(lines) THEN ranking
    ELSE ParseLines(lines, i + 1, num_docs, ParseLine(lines[i], 1, num_docs, ranking))

\* "for i in range(1, num_docs + 1): if i not in ranking: ranking.append(i)"
RECURSIVE FillMissing(_, _, _)
FillMissing(ranking, i, num_docs) ==
    IF i > num_docs THEN ranking
    ELSE FillMissing(IF i \in Range(ranking) THEN ranking ELSE Append(ranking, i),
                     i + 1, num_docs)

\* int(word) raises ValueError on the first superscript word the scan of a
\* line reaches
RECURSIVE LineRaises(_, _, _, _)
LineRaises(line, i, num_docs, ranking) ==
    IF i > Len(line) THEN FALSE
    ELSE IF line[i].kind = "superscript" THEN TRUE
    ELSE IF ParseLine(<<line[i]>>, 1, num_docs, ranking) # ranking THEN FALSE
    ELSE LineRaises(line, i + 1, num_docs, ranking)

RECURSIVE ParseRaises(_, _, _, _)
ParseRaises(lines, i, num_docs, ranking) ==
    IF i > Len(lines) THEN FALSE
    ELSE \/ LineRaises(lines[i], 1, num_docs, ranking)
         \/ ParseRaises(lines, i + 1, num_docs, ParseLine(lines[i], 1, num_docs, ranking))

\* RerankRetriever._parse_ranking_response; response is the reply as its lines,
\* each line as its whitespace-separated words
parse_ranking_response(response, num_docs) ==
    FillMissing(ParseLines(response, 1, num_docs, <<>>), 1, num_docs)

\* the reorder loop of _rerank_documents: rerank_score counts down from len(ranking)
RECURSIVE Reorder(_, _, _, _)
Reorder(documents, ranking, i, reranked) ==
    IF i > Len(ranking) THEN reranked
    ELSE Reorder(documents, ranking, i + 1,
            IF 1 <= ranking[i] /\ ranking[i] <= Len(documents)
            THEN Append(reranked, [documents[ranking[i]] EXCEPT !.metadata =
                    DictUpdate(documents[ranking[i]].metadata,
                        [rerank_score |-> Len(ranking) - Len(reranked)])])
            ELSE reranked)

\* "Add any missing documents at the end" with rerank_score 0
RECURSIVE AppendMissing(_, _, _, _)
AppendMissing(documents, ranking, i, reranked) ==
    IF i > Len(documents) THEN reranked
    ELSE AppendMissing(documents, ranking, i + 1,
            IF i \in Range(ranking) THEN reranked
            ELSE Append(reranked, [documents[i] EXCEPT !.metadata =
                    DictUpdate(documents[i].metadata, [rerank_score |-> 0])]))

\* A mutant of rerank_documents: a failing LLM call leaves no candidates.
rerank_documents_EmptyOnFailure(llm, documents, llm_answer) ==
    IF llm = "None" \/ Len(documents) <= 1 THEN documents
    ELSE IF llm_answer.raised THEN <<>>
    ELSE LET ranking == parse_ranking_response(llm_answer.reply, Len(documents))
         IN  AppendMissing(documents, ranking, 1, Reorder(documents, ranking, 1, <<>>))

\* RerankRetriever._rerank_documents; llm_answer is what self._llm.ainvoke does:
\* [raised, reply]
rerank_documents(llm, documents, llm_answer) ==
    IF llm = "None" \/ Len(documents) <= 1 THEN documents
    ELSE IF llm_answer.raised THEN documents
    ELSE IF ParseRaises(llm_answer.reply, 1, Len(documents), <<>>) THEN documents
    ELSE LET ranking == parse_ranking_response(llm_answer.reply, Len(documents))
         IN  AppendMissing(documents, ranking, 1, Reorder(documents, ranking, 1, <<>>))

\* "for i, doc in enumerate(reranked_docs[:self.k])"
RerankStamp(reranked, self_k, base_strategy, llm, n_initial) ==
    LET top == Take(reranked, self_k)
    IN  [i \in DOMAIN top |-> [top[i] EXCEPT !.metadata =
            DictUpdate(top[i].metadata,
                [retrieval_strategy |-> "rerank", base_strategy |-> base_strategy,
                 rank |-> i, reranked |-> (llm # "None"),
                 initial_candidates |-> n_initial])]]

\* RerankRetriever._retrieve_impl; base is self._base_retriever ("None" when the
\* factory could not create it), initial what self._base_retriever.retrieve(query)
\* gave its caller (a result of retrieve), llm is self._llm after
\* _ensure_components_initialized
RerankRetriever_impl(base, initial, llm, llm_answer, self_k, base_strategy) ==
    IF base = "None" THEN ImplReturns(<<>>)
    ELSE IF initial.outcome = "raised" THEN ImplReturns(<<>>)
    ELSE IF initial.docs = <<>> THEN ImplReturns(<<>>)
    ELSE LET reranked == IF llm # "None" /\ Len(initial.docs) > 1
                         THEN rerank_documents(llm, initial.docs, llm_answer)
                         ELSE initial.docs
         IN  ImplReturns(RerankStamp(reranked, self_k, base_strategy, llm,
                                     Len(initial.docs)))

\* replies of the reranking LLM
W1 == Word("digits", 1)

W2 == Word("digits", 2)

LlmRaises == [raised |-> TRUE, reply |-> <<>>]

LlmAnswers ==
    {LlmRaises} \cup
    {[raised |-> FALSE, reply |-> r] : r \in
        { <<>>,
          << <<W2>>, <<W1>> >>,
          << <<Word("other", 0), Word("punct", 2)>>, <<Word("digits", 0)>> >>,
          << <<Word("digits", 9), W2, W1>> >> }}

(***************************************************************************)
(* MultiQueryRetriever (retrievers/multi_query.py).                        *)
(***************************************************************************)
DefaultNumQueries == 3

\* hasattr(self._base_retriever, '_vector_store')
HasVectorStore(strategy) == strategy = "vector"

\* hasattr(self._base_retriever, '_parent_retriever')
HasParentRetriever(strategy) == strategy = "parent_doc"

\* A mutant of FormatPrompt: the template is formatted without an error.
FormatPrompt_Formats(num_queries) == [raised |-> FALSE, error |-> "none"]

\* The template of the query-generation prompt, """... {question} ...
\* {num_queries} ...""".format(num_queries=self.num_queries): the template
\* holds the field {question}, for which str.format is given no value
FormatPrompt(num_queries) == [raised |-> TRUE, error |-> "KeyError"]

\* MultiQueryRetriever._ensure_retriever_initialized on the lazy fields
\* r = [llm, base_k, vector_store, mqr] (base_k = 0: _base_retriever is None;
\* vector_store: the base retriever's own _vector_store).  llm_ok: get_llm()
\* returns; from_llm_ok: LangChainMultiQueryRetriever.from_llm returns.
\* A base retriever the factory has just created has _vector_store = None and
\* _parent_retriever = None, so _get_langchain_retriever raises AttributeError
\* (None.as_retriever) for a vector base and returns None for a parent_doc base.
\* For every other base the prompt template is formatted next.
ensure_retriever_initialized(r, base_strategy, self_k, llm_ok, from_llm_ok) ==
    IF r.mqr # "None" THEN r
    ELSE IF ~llm_ok THEN r
    ELSE LET created == [r EXCEPT !.llm = "llm", !.base_k = self_k * 2,
                                  !.vector_store = "None"]
         IN  IF HasVectorStore(base_strategy) THEN created
             ELSE IF HasParentRetriever(base_strategy) THEN created
             ELSE IF FormatPrompt(DefaultNumQueries).raised THEN created
             ELSE IF from_llm_ok THEN [created EXCEPT !.mqr = "MultiQueryRetriever"]
             ELSE created

\* MultiQueryRetriever._ensure_base_retriever
ensure_base_retriever(r, self_k) ==
    IF r.base_k # 0 THEN r ELSE [r EXCEPT !.base_k = self_k]

\* the deduplication loop: first 500 characters as identity, at most k kept
RECURSIVE MultiQueryUnique(_, _, _, _, _, _)
MultiQueryUnique(documents, i, seen_content, unique_docs, self_k, base_strategy) ==
    IF i > Len(documents) THEN unique_docs
    ELSE IF Prefix500(documents[i]) \notin seen_content /\ Len(unique_docs) < self_k
         THEN MultiQueryUnique(documents, i + 1,
                seen_content \cup {Prefix500(documents[i])},
                Append(unique_docs, [documents[i] EXCEPT !.metadata =
                    DictUpdate(documents[i].metadata,
                        [retrieval_strategy |-> "multi_query",
                         base_strategy |-> base_strategy,
                         rank |-> Len(unique_docs) + 1,
                         num_queries_generated |-> DefaultNumQueries])]),
                self_k, base_strategy)
         ELSE MultiQueryUnique(documents, i + 1, seen_content, unique_docs,
                               self_k, base_strategy)

\* "return await self._base_retriever.retrieve(query)": fallback is the result of
\* that retrieve; an exception it raised is not caught here
MultiQueryFallback(fallback) ==
    IF fallback.outcome = "raised" THEN ImplRaised ELSE ImplReturns(fallback.docs)

\* MultiQueryRetriever._retrieve_impl; r the lazy fields after the two ensure
\* calls, answer what aget_relevant_documents does, fallback the result of the
\* base retriever's retrieve
MultiQueryRetriever_impl(r, answer, fallback, self_k, base_strategy) ==
    IF r.mqr = "None" THEN MultiQueryFallback(fallback)
    ELSE IF answer.raised THEN MultiQueryFallback(fallback)
    ELSE ImplReturns(MultiQueryUnique(answer.docs, 1, {}, <<>>, self_k, base_strategy))

(***************************************************************************)
(* EnsembleRetriever (retrievers/ensemble.py): Reciprocal Rank Fusion.     *)
(***************************************************************************)
RRFConstant == 60

MaxSubHits == 2  \* longest list a sub-strategy of the ensemble answers with
MaxListLen == 3  \* longest list handed to _apply_rrf_fusion on its own

\* The common denominator of all RRF terms: the product of (RRFConstant + r) for
\* the ranks r that occur.  A score s of the code is the integer s * RRFDen here.
RECURSIVE RankProduct(_)
RankProduct(n) == IF n = 0 THEN 1 ELSE (RRFConstant + n) * RankProduct(n - 1)

RRFDen == RankProduct(Max(MaxSubHits, MaxListLen))

\* "weight / (rank + 1 + self.rrf_constant)", rank counted from 0 by enumerate
RRFTerm(weight, rank) == weight * (RRFDen \div (rank + 1 + RRFConstant))

\* A mutant of get_document_id: the whole content is the identity.
get_document_id_WholeContent(doc) ==
    <<DictGet(doc.metadata, "source", "unknown"), doc.page_content>>

\* EnsembleRetriever._get_document_id: f"{source}:{hash(page_content[:1000])}"
get_document_id(doc) ==
    <<DictGet(doc.metadata, "source", "unknown"), Prefix1000(doc)>>

\* len(doc.metadata)
MetadataLen(doc) == Cardinality(DOMAIN doc.metadata)

\* One pass of the inner loop of _apply_rrf_fusion.  acc is doc_scores and
\* doc_objects together, as entries [id, score, doc] in the insertion order of
\* doc_scores.
FuseDoc(acc, doc, weight, rank) ==
    LET doc_id == get_document_id(doc)
    IN  IF \A j \in DOMAIN acc : acc[j].id # doc_id
        THEN Append(acc, [id |-> doc_id, score |-> RRFTerm(weight, rank), doc |-> doc])
        ELSE [j \in DOMAIN acc |->
                IF acc[j].id # doc_id THEN acc[j]
                ELSE [id |-> doc_id,
                      score |-> acc[j].score + RRFTerm(weight, rank),
                      doc |-> IF MetadataLen(doc) > MetadataLen(acc[j].doc)
                              THEN doc ELSE acc[j].doc]]

\* "for rank, doc in enumerate(docs)"; i is rank + 1
RECURSIVE FuseList(_, _, _, _)
FuseList(acc, docs, i, weight) ==
    IF i > Len(docs) THEN acc
    ELSE FuseList(FuseDoc(acc, docs[i], weight, i - 1), docs, i + 1, weight)

\* "for strategy, docs in strategy_results.items()"; strategy_results is the dict
\* as its items [strategy, docs] in insertion order
RECURSIVE FuseAll(_, _, _, _)
FuseAll(acc, strategy_results, s, strategy_weights) ==
    IF s > Len(strategy_results) THEN acc
    ELSE FuseAll(FuseList(acc, strategy_results[s].docs, 1,
                          DictGet(strategy_weights, strategy_results[s].strategy, 1)),
                 strategy_results, s + 1, strategy_weights)

\* A mutant of apply_rrf_fusion: among equal scores the document met last
\* comes first.
apply_rrf_fusion_TiesReversed(strategy_results, strategy_weights) ==
    LET fused == FuseAll(<<>>, strategy_results, 1, strategy_weights)
    IN  SortDesc([i \in DOMAIN fused |-> fused[Len(fused) + 1 - i]])

\* EnsembleRetriever._apply_rrf_fusion: (document, score) by descending score
apply_rrf_fusion(strategy_results, strategy_weights) ==
    SortDesc(FuseAll(<<>>, strategy_results, 1, strategy_weights))

\* the elements of s that are in keep, in the order of s
RECURSIVE SelectNames(_, _)
SelectNames(s, keep) ==
    IF s = <<>> THEN <<>>
    ELSE IF s[1] \in keep THEN <<s[1]>> \o SelectNames(Tail(s), keep)
         ELSE SelectNames(Tail(s), keep)

\* EnsembleRetriever._get_contributing_strategies
get_contributing_strategies(doc, strategy_results) ==
    LET names == [s \in DOMAIN strategy_results |-> strategy_results[s].strategy]
        hit == {strategy_results[s].strategy : s \in
                  {t \in DOMAIN strategy_results :
                     \E i \in DOMAIN strategy_results[t].docs :
                        get_document_id(strategy_results[t].docs[i]) = get_document_id(doc)}}
    IN  SelectNames(names, hit)

\* "for i, (doc, score) in enumerate(fused_results[:self.k])"
EnsembleStamp(fused_results, self_k, strategies, strategy_results) ==
    LET top == Take(fused_results, self_k)
    IN  [i \in DOMAIN top |-> [top[i].doc EXCEPT !.metadata =
            DictUpdate(top[i].doc.metadata,
                [retrieval_strategy |-> "ensemble",
                 ensemble_strategies |-> strategies,
                 rank |-> i,
                 rrf_score |-> top[i].score,
                 contributing_strategies |->
                     get_contributing_strategies(top[i].doc, strategy_results)])]]

\* EnsembleRetriever._retrieve_impl once the sub-strategies have answered
EnsembleRetriever_impl(e, strategy_results) ==
    IF e.retrievers = {} THEN ImplReturns(<<>>)
    ELSE ImplReturns(EnsembleStamp(apply_rrf_fusion(strategy_results, e.strategy_weights),
                                   e.k, e.strategies, strategy_results))

(***************************************************************************)
(* The ensemble's sub-retrievers and its configuration calls.              *)
(***************************************************************************)
\* RetrieverFactory._strategies: the built-in strategies and one strategy
\* registered through register_strategy ("custom", class CustomRetriever)
Registered ==
    {"bm25", "vector", "parent_doc", "multi_query", "rerank", "ensemble", "custom"}

\* self.__class__.__name__.replace("Retriever", "").lower() of the registered class
StrategyName(strategy) ==
    CASE strategy = "parent_doc"  -> "parentdoc"
      [] strategy = "multi_query" -> "multiquery"
      [] OTHER                    -> strategy

\* strategy_k = min(self.k * 3, 15)
StrategyK(self_k) == Min(self_k * 3, 15)

\* A mutant of ensure_retrievers_initialized: the first strategy that cannot be
\* created ends the loop.
ensure_retrievers_initialized_Aborts(e, registry) ==
    IF e.initialized THEN e
    ELSE IF Range(e.strategies) \subseteq registry
         THEN [e EXCEPT !.retrievers = @ \cup Range(e.strategies), !.initialized = TRUE]
         ELSE [e EXCEPT !.retrievers = @ \cup
                 {e.strategies[i] : i \in {j \in DOMAIN e.strategies :
                     \A h \in 1..j : e.strategies[h] \in registry}}]

\* EnsembleRetriever._ensure_retrievers_initialized: RetrieverFactory.create
\* raises ValueError for a name outside the registry; that strategy gets no
\* retriever and the loop goes on
ensure_retrievers_initialized(e, registry) ==
    IF e.initialized THEN e
    ELSE [e EXCEPT !.retrievers = @ \cup (Range(e.strategies) \cap registry),
                   !.initialized = TRUE]

\* list.remove(x): the first occurrence goes
RECURSIVE ListRemove(_, _)
ListRemove(s, x) ==
    IF s = <<>> THEN <<>>
    ELSE IF s[1] = x THEN Tail(s) ELSE <<s[1]>> \o ListRemove(Tail(s), x)

\* dict.pop(key, None)
DictPop(d, key) == [x \in (DOMAIN d) \ {key} |-> d[x]]

\* EnsembleRetriever.add_strategy
add_strategy(e, strategy, weight) ==
    IF strategy \notin Range(e.strategies)
    THEN [e EXCEPT !.strategies = Append(@, strategy),
                   !.strategy_weights = DictUpdate(@, [x \in {strategy} |-> weight]),
                   !.initialized = FALSE]
    ELSE e

\* A mutant of remove_strategy: the weight of the removed strategy stays.
remove_strategy_KeepsWeight(e, strategy) ==
    IF strategy \in Range(e.strategies)
    THEN [e EXCEPT !.strategies = ListRemove(@, strategy),
                   !.retrievers = @ \ {strategy}]
    ELSE e

\* EnsembleRetriever.remove_strategy
remove_strategy(e, strategy) ==
    IF strategy \in Range(e.strategies)
    THEN [e EXCEPT !.strategies = ListRemove(@, strategy),
                   !.strategy_weights = DictPop(@, strategy),
                   !.retrievers = @ \ {strategy}]
    ELSE e

\* A mutant of parallel_entry: results are taken in completion order.
parallel_entry_CompletionOrder(tasks, results, completed, i) ==
    IF results[completed[i]].outcome = "raised"
    THEN [strategy |-> tasks[i], docs |-> <<>>]
    ELSE [strategy |-> tasks[i], docs |-> results[completed[i]].docs]

\* _retrieve_parallel: asyncio.gather(*tasks.values(), return_exceptions=True)
\* answers in the order of the tasks, whatever the order of completion;
\* "isinstance(result, Exception)" turns a failure into []
parallel_entry(tasks, results, completed, i) ==
    IF results[tasks[i]].outcome = "raised"
    THEN [strategy |-> tasks[i], docs |-> <<>>]
    ELSE [strategy |-> tasks[i], docs |-> results[tasks[i]].docs]

\* _retrieve_sequential: "try: ... except Exception: strategy_results[strategy] = []"
sequential_entry(tasks, results, i) ==
    IF results[tasks[i]].outcome = "raised"
    THEN [strategy |-> tasks[i], docs |-> <<>>]
    ELSE [strategy |-> tasks[i], docs |-> results[tasks[i]].docs]

\* the dict strategy_results as its items in insertion order
StrategyResults(parallel, tasks, results, completed) ==
    [i \in DOMAIN tasks |-> IF parallel THEN parallel_entry(tasks, results, completed, i)
                            ELSE sequential_entry(tasks, results, i)]

(***************************************************************************)
(* The state machine: one retriever, created by the factory, and the calls *)
(* made on it.                                                             *)
(***************************************************************************)
MaxOps == 2      \* configuration calls made on the ensemble

Weights == {1, 2}

\* VectorRetriever._ensure_vector_store; connect_ok: QdrantVectorStore(...) returns
ensure_vector_store(store, connect_ok) ==
    IF store # "None" THEN store ELSE IF connect_ok THEN "store" ELSE "None"

\* ParentDocRetriever._ensure_retriever_initialized
ensure_parent_retriever(parent, connect_ok) ==
    IF parent # "None" THEN parent
    ELSE IF connect_ok THEN "ParentDocumentRetriever" ELSE "None"

\* RerankRetriever._ensure_components_initialized, the LLM part
ensure_llm(llm, llm_ok) ==
    IF llm # "None" THEN llm ELSE IF llm_ok THEN "llm" ELSE "None"

\* the result of a retrieve together with what the step knows about it: whether
\* an adapter of the strategy failed, and whether the cache store changed
Call(r, failed, store_before) ==
    DictUpdate(r, [failed |-> failed, written |-> r.store # store_before])

NoCall ==
    [strategy |-> "none", query |-> "none", k |-> 0, caching |-> FALSE,
     cache_read |-> FALSE, cache_read_error |-> FALSE, cache_hit |-> FALSE,
     impl_ran |-> FALSE, impl_raised |-> FALSE, impl_len |-> 0,
     cache_write |-> FALSE, cache_write_error |-> FALSE,
     outcome |-> "none", docs |-> <<>>, metrics |-> <<>>, store |-> EmptyDict,
     failed |-> FALSE, written |-> FALSE]

NoEnsemble ==
    [k |-> 0, enable_parallel |-> FALSE, strategies |-> <<>>,
     strategy_weights |-> EmptyDict, retrievers |-> {}, initialized |-> FALSE]

\* constructor arguments of the ensembles considered; "hybrid" is not registered
EnsembleConfigs ==
    { [strategies |-> <<"bm25", "vector", "custom">>, strategy_weights |-> EmptyDict],
      [strategies |-> <<"custom", "vector">>, strategy_weights |-> [vector |-> 2]],
      [strategies |-> <<"hybrid", "vector">>, strategy_weights |-> [custom |-> 2]] }

\* hung: the tasks whose awaited adapter call never answers
Idle == [phase |-> "idle", query |-> "none", tasks |-> <<>>, results |-> EmptyDict,
         completed |-> <<>>, hung |-> {}]

Init ==
    /\ cache = EmptyDict
    /\ last = NoCall
    /\ run = Idle
    /\ hist = <<>>
    /\ \E strategy \in Registered, self_k \in 1..MaxK, caching \in BOOLEAN,
          base \in {"vector", "bm25"} :
        /\ strategy # "multi_query" => base = "vector"
        /\ retriever = [strategy |-> strategy, k |-> self_k, enable_caching |-> caching,
                        base_strategy |-> base, vector_store |-> "None",
                        parent_retriever |-> "None", llm |-> "None",
                        base_k |-> 0, mqr |-> "None"]
        /\ IF strategy = "ensemble"
           THEN \E c \in EnsembleConfigs, parallel \in BOOLEAN :
                   ens = [k |-> self_k, enable_parallel |-> parallel,
                          strategies |-> c.strategies,
                          strategy_weights |-> c.strategy_weights,
                          retrievers |-> {}, initialized |-> FALSE]
           ELSE ens = NoEnsemble

\* retrieve(query, similarity_threshold=threshold) on a VectorRetriever
RetrieveVector ==
    /\ retriever.strategy = "vector"
    /\ \E query \in Queries, connect_ok \in BOOLEAN, redis_up \in BOOLEAN,
          threshold \in SimilarityScores, answer \in StoreAnswers(retriever.k) :
        LET store == ensure_vector_store(retriever.vector_store, connect_ok)
            r == retrieve(StrategyName("vector"), query, retriever.k,
                          retriever.enable_caching, cache, redis_up,
                          VectorRetriever_impl(store, answer, threshold, DefaultCollection))
        IN  /\ retriever' = [retriever EXCEPT !.vector_store = store]
            /\ cache' = r.store
            /\ last' = Call(r, store = "None" \/ answer.raised, cache)
    /\ UNCHANGED <<ens, run, hist>>

\* retrieve(query) on a BM25Retriever; stored is what the document store holds
RetrieveBM25 ==
    /\ retriever.strategy = "bm25"
    /\ \E query \in Queries, redis_up \in BOOLEAN, stored \in SeqsUpTo(StoreDocs, 2) :
        LET loaded == EnsureIndexLoaded(get_document_store, stored)
            r == retrieve(StrategyName("bm25"), query, retriever.k,
                          retriever.enable_caching, cache, redis_up,
                          BM25Retriever_impl(loaded, [i \in DOMAIN stored |-> 1],
                                             retriever.k))
        IN  /\ cache' = r.store
            /\ last' = Call(r, loaded.bm25_index = "None" /\ stored # <<>>, cache)
    /\ UNCHANGED <<retriever, ens, run, hist>>

\* retrieve(query) on a ParentDocRetriever
RetrieveParentDoc ==
    /\ retriever.strategy = "parent_doc"
    /\ \E query \in Queries, connect_ok \in BOOLEAN, redis_up \in BOOLEAN,
          answer \in RetrieverAnswers :
        LET parent == ensure_parent_retriever(retriever.parent_retriever, connect_ok)
            r == retrieve(StrategyName("parent_doc"), query, retriever.k,
                          retriever.enable_caching, cache, redis_up,
                          ParentDocRetriever_impl(parent, answer, retriever.k,
                                                  DefaultCollection))
        IN  /\ retriever' = [retriever EXCEPT !.parent_retriever = parent]
            /\ cache' = r.store
            /\ last' = Call(r, parent = "None" \/ answer.raised, cache)
    /\ UNCHANGED <<ens, run, hist>>

\* retrieve(query) on a strategy registered through register_strategy: its
\* _retrieve_impl raises or returns any list
RetrieveCustom ==
    /\ retriever.strategy = "custom"
    /\ \E query \in Queries, redis_up \in BOOLEAN, impl \in RetrieverAnswers :
        LET r == retrieve(StrategyName("custom"), query, retriever.k,
                          retriever.enable_caching, cache, redis_up, impl)
        IN  /\ cache' = r.store
            /\ last' = Call(r, impl.raised, cache)
    /\ UNCHANGED <<retriever, ens, run, hist>>
\* retrieve(query) on a RerankRetriever.  Its base retriever is
\* RetrieverFactory.create("vector", k=initial_k, collection_name=...), with
\* caching at its default (enabled); retriever.vector_store is that base
\* retriever's _vector_store.
RetrieveRerank ==
    /\ retriever.strategy = "rerank"
    /\ \E query \in Queries, connect_ok \in BOOLEAN, llm_ok \in BOOLEAN,
          redis_up \in BOOLEAN :
        LET store == ensure_vector_store(retriever.vector_store, connect_ok)
            llm == ensure_llm(retriever.llm, llm_ok)
        IN  \E answer \in (IF store = "None" THEN {StoreRaises}
                           ELSE StoreAnswers(InitialK(retriever.k))),
               llm_answer \in (IF llm = "None" THEN {LlmRaises} ELSE LlmAnswers) :
        LET initial == retrieve(StrategyName("vector"), query, InitialK(retriever.k),
                                TRUE, cache, redis_up,
                                VectorRetriever_impl(store, answer, 0, DefaultCollection))
            r == retrieve(StrategyName("rerank"), query, retriever.k,
                          retriever.enable_caching, initial.store, redis_up,
                          RerankRetriever_impl("vector", initial, llm, llm_answer,
                                               retriever.k, "vector"))
        IN  /\ retriever' = [retriever EXCEPT !.vector_store = store, !.llm = llm]
            /\ cache' = r.store
            /\ last' = Call(r, store = "None" \/ answer.raised, cache)
    /\ UNCHANGED <<ens, run, hist>>

\* retrieve(query) of the base retriever of a MultiQueryRetriever
BaseRetrieve(base_strategy, query, base_k, store, redis_up, vector_store, answer) ==
    IF base_strategy = "vector"
    THEN retrieve(StrategyName("vector"), query, base_k, TRUE, store, redis_up,
                  VectorRetriever_impl(vector_store, answer, 0, DefaultCollection))
    ELSE retrieve(StrategyName("bm25"), query, base_k, TRUE, store, redis_up,
                  BM25Retriever_impl(EnsureIndexLoaded(get_document_store, <<>>),
                                     <<>>, base_k))

\* retrieve(query) on a MultiQueryRetriever
RetrieveMultiQuery ==
    /\ retriever.strategy = "multi_query"
    /\ \E query \in Queries, llm_ok \in BOOLEAN, from_llm_ok \in BOOLEAN,
          connect_ok \in BOOLEAN, redis_up \in BOOLEAN :
        LET lazy == [llm |-> retriever.llm, base_k |-> retriever.base_k,
                     vector_store |-> retriever.vector_store, mqr |-> retriever.mqr]
            r1 == ensure_retriever_initialized(lazy, retriever.base_strategy,
                                               retriever.k, llm_ok, from_llm_ok)
        IN  \E answer \in (IF r1.mqr = "None" THEN {ImplRaised} ELSE RetrieverAnswers) :
            LET falls_back == r1.mqr = "None" \/ answer.raised
                r2 == IF falls_back THEN ensure_base_retriever(r1, retriever.k) ELSE r1
                asks_store == falls_back /\ retriever.base_strategy = "vector"
                store == IF asks_store
                         THEN ensure_vector_store(r2.vector_store, connect_ok)
                         ELSE r2.vector_store
            IN  \E base_answer \in (IF asks_store /\ store # "None"
                                    THEN StoreAnswers(r2.base_k)
                                    ELSE {StoreRaises}) :
                LET fallback == BaseRetrieve(retriever.base_strategy, query, r2.base_k,
                                             cache, redis_up, store, base_answer)
                    r == retrieve(StrategyName("multi_query"), query, retriever.k,
                                  retriever.enable_caching,
                                  IF falls_back THEN fallback.store ELSE cache,
                                  redis_up,
                                  MultiQueryRetriever_impl(r2, answer, fallback,
                                      retriever.k, retriever.base_strategy))
                IN  /\ retriever' = [retriever EXCEPT !.llm = r2.llm,
                                          !.base_k = r2.base_k,
                                          !.vector_store = store,
                                          !.mqr = r2.mqr]
                    /\ cache' = r.store
                    /\ last' = Call(r, falls_back /\ (store = "None" \/ base_answer.raised),
                                    cache)
    /\ UNCHANGED <<ens, run, hist>>

(***************************************************************************)
(* retrieve on an EnsembleRetriever, as the steps of its fan-out, and the  *)
(* configuration calls on it.                                              *)
(***************************************************************************)
\* what the retrieve of one sub-retriever can give the ensemble
SubAnswers(strategy, query, self_k, caching, store) ==
    CASE strategy = "vector" ->
            {retrieve(StrategyName("vector"), query, self_k, caching, store, TRUE,
                      VectorRetriever_impl("store", [raised |-> FALSE, hits |-> h], 0,
                                           DefaultCollection)) :
                h \in SeqsUpTo({Hit(DocA, 1), Hit(DocT, 1)}, MaxSubHits)}
      [] strategy = "custom" ->
            {retrieve(StrategyName("custom"), query, self_k, caching, store, TRUE, impl) :
                impl \in {ImplRaised} \cup
                         {ImplReturns(d) : d \in SeqsUpTo({DocA2, DocB}, MaxSubHits)}}
      [] OTHER ->
            {retrieve(StrategyName("bm25"), query, self_k, caching, store, TRUE,
                      BM25Retriever_impl(EnsureIndexLoaded(get_document_store, <<>>),
                                         <<>>, self_k))}

\* retrieve(query) on the ensemble starts: _ensure_retrievers_initialized and
\* the creation of one task per strategy that has a retriever
EnsembleBegin ==
    /\ retriever.strategy = "ensemble"
    /\ run.phase # "fanout"
    /\ \E query \in {"q1"} :
        LET e == ensure_retrievers_initialized(ens, Registered)
        IN  /\ ens' = e
            /\ run' = [phase |-> "fanout", query |-> query,
                       tasks |-> SelectNames(e.strategies, e.retrievers),
                       results |-> EmptyDict, completed |-> <<>>, hung |-> {}]
    /\ last' = NoCall
    /\ UNCHANGED <<retriever, cache, hist>>

\* the retrieve of one sub-retriever completes: in any order under
\* asyncio.gather, in the configured order in sequential mode
SubStrategyReturns ==
    /\ run.phase = "fanout"
    /\ \E i \in DOMAIN run.tasks :
        /\ run.tasks[i] \notin DOMAIN run.results
        /\ run.tasks[i] \notin run.hung
        /\ ens.enable_parallel \/ \A j \in 1..(i - 1) : run.tasks[j] \in DOMAIN run.results
        /\ \E r \in SubAnswers(run.tasks[i], run.query, StrategyK(ens.k),
                               retriever.enable_caching, cache) :
             run' = [run EXCEPT
                        !.results = DictUpdate(@, [x \in {run.tasks[i]} |->
                                        [outcome |-> r.outcome, docs |-> r.docs]]),
                        !.completed = Append(@, run.tasks[i])]
    /\ UNCHANGED <<retriever, cache, last, ens, hist>>

\* every task has completed: fusion, stamping and the rest of the wrapper
EnsembleEnd ==
    /\ run.phase = "fanout"
    /\ \A i \in DOMAIN run.tasks : run.tasks[i] \in DOMAIN run.results
    /\ \E redis_up \in BOOLEAN :
        LET strategy_results == StrategyResults(ens.enable_parallel, run.tasks,
                                                run.results, run.completed)
            r == retrieve(StrategyName("ensemble"), run.query, ens.k,
                          retriever.enable_caching, cache, redis_up,
                          EnsembleRetriever_impl(ens, strategy_results))
        IN  /\ cache' = r.store
            /\ last' = Call(r, \E x \in DOMAIN run.results :
                                   run.results[x].outcome = "raised", cache)
    /\ run' = [run EXCEPT !.phase = "done"]
    /\ UNCHANGED <<retriever, ens, hist>>

\* the configuration of the ensemble that a configuration call can change
Config(e) == [strategies |-> e.strategies, strategy_weights |-> e.strategy_weights,
              retrievers |-> e.retrievers, initialized |-> e.initialized]

Op(op, strategy, weight, before, after) ==
    [op |-> op, strategy |-> strategy, weight |-> weight,
     before |-> Config(before), after |-> Config(after)]

AddStrategy ==
    /\ retriever.strategy = "ensemble"
    /\ run.phase # "fanout"
    /\ Len(hist) < MaxOps
    /\ \E strategy \in {"custom", "hybrid"}, weight \in Weights \ {1} :
        /\ ens' = add_strategy(ens, strategy, weight)
        /\ hist' = Append(hist, Op("add", strategy, weight, ens, ens'))
    /\ run' = Idle
    /\ last' = NoCall
    /\ UNCHANGED <<retriever, cache>>

RemoveStrategy ==
    /\ retriever.strategy = "ensemble"
    /\ run.phase # "fanout"
    /\ Len(hist) < MaxOps
    /\ \E strategy \in {"custom", "hybrid"} :
        /\ ens' = remove_strategy(ens, strategy)
        /\ hist' = Append(hist, Op("remove", strategy, 0, ens, ens'))
    /\ run' = Idle
    /\ last' = NoCall
    /\ UNCHANGED <<retriever, cache>>

Next ==
    \/ RetrieveVector
    \/ RetrieveBM25
    \/ RetrieveParentDoc
    \/ RetrieveCustom
    \/ RetrieveRerank
    \/ RetrieveMultiQuery
    \/ EnsembleBegin
    \/ SubStrategyReturns
    \/ EnsembleEnd
    \/ AddStrategy
    \/ RemoveStrategy

Spec == Init /\ [][Next]_vars

(***************************************************************************)
(* The pipeline contract (BaseRetriever.retrieve).                         *)
(***************************************************************************)
\* the strategy names of the retrievers the package ships
ShippedNames == {StrategyName(x) : x \in Registered \ {"custom"}}

\* C1: whatever the strategy, the query, the configured k and the calls made
\* before, the list that retrieve returns has at most k documents.
C1_AtMostK ==
    last.outcome = "returned" => Len(last.docs) <= retriever.k

\* a retrieve whose _retrieve_impl produced more than k documents has returned
C1_Capped ==
    /\ last.outcome = "returned"
    /\ last.impl_len > retriever.k
    /\ Len(last.docs) = retriever.k

C5_CacheFailureSilent ==
    /\ last.cache_read_error => last.impl_ran
    /\ last.cache_write_error =>
          /\ last.outcome = "returned"
          /\ Len(last.docs) = Min(last.impl_len, retriever.k)
    /\ last.outcome = "raised" => last.impl_raised

\* a retrieve whose cache read and cache write both failed has returned documents
C5_BothFailed ==
    /\ last.cache_read_error
    /\ last.cache_write_error
    /\ last.outcome = "returned"
    /\ last.docs # <<>>

(***************************************************************************)
(* The ensemble contract.                                                  *)
(***************************************************************************)
\* the content-identity of a document: its first 1000 characters and its source
ContentIdentity(doc) ==
    <<Prefix1000(doc),
      IF "source" \in DOMAIN doc.metadata THEN doc.metadata.source ELSE "unknown">>

\* the sub-strategies of the finished retrieve that answered, in configured
\* order, each with the list it answered
Survivors ==
    LET names == SelectNames(ens.strategies,
                    {x \in DOMAIN run.results : run.results[x].outcome = "returned"})
    IN  [i \in DOMAIN names |-> [strategy |-> names[i], docs |-> run.results[names[i]].docs]]

\* all sub-strategies that were asked, in the given order, a failed one with []
Asked(names) ==
    [i \in DOMAIN names |->
        [strategy |-> names[i],
         docs |-> IF run.results[names[i]].outcome = "raised" THEN <<>>
                  ELSE run.results[names[i]].docs]]

\* C6: in parallel and in sequential mode, whichever sub-strategies raise or
\* cannot be created, every strategy that can be created is asked, the retrieve
\* returns without error, and its result is the fusion of the lists of the
\* sub-strategies that answered.
C6_FailuresIsolated ==
    run.phase = "done" =>
        /\ run.tasks = SelectNames(ens.strategies, Registered)
        /\ last.outcome = "returned"
        /\ last.docs = EnsembleStamp(apply_rrf_fusion(Survivors, ens.strategy_weights),
                                     ens.k, ens.strategies, Survivors)

\* an ensemble with a strategy that cannot be created and one that raised has
\* returned the documents of the others
C6_TwoFailures ==
    /\ run.phase = "done"
    /\ Range(ens.strategies) \ Registered # {}
    /\ \E x \in DOMAIN run.results : run.results[x].outcome = "raised"
    /\ last.docs # <<>>

\* 1-based rank of the first document of docs with the identity id; 0 if none
FirstRank(docs, id) ==
    LET at == {i \in DOMAIN docs : ContentIdentity(docs[i]) = id}
    IN  IF at = {} THEN 0 ELSE CHOOSE i \in at : \A j \in at : i <= j

\* the sum of weight / (r + C) over the lists that hold the identity id
RECURSIVE TermSum(_, _, _)
TermSum(items, s, id) ==
    IF s > Len(items) THEN 0
    ELSE TermSum(items, s + 1, id) +
         (IF FirstRank(items[s].docs, id) = 0 THEN 0
          ELSE DictGet(ens.strategy_weights, items[s].strategy, 1) *
               (RRFDen \div (FirstRank(items[s].docs, id) + RRFConstant)))

\* C7: the rrf_score of every document the ensemble returns is the sum, over the
\* sub-strategies whose list holds the document, of weight / (r + C), r its rank
\* in that list: one term per sub-strategy and document.
C7_ScoreIsTermSum ==
    (run.phase = "done" /\ last.outcome = "returned") =>
        \A i \in DOMAIN last.docs :
            last.docs[i].metadata.rrf_score =
                TermSum(Survivors, 1, ContentIdentity(last.docs[i]))

\* C8: no result of an ensemble retrieve holds two documents with the same
\* content-identity.
C8_NoDuplicateIdentity ==
    (last.strategy = "ensemble" /\ last.outcome = "returned") =>
        \A i, j \in DOMAIN last.docs :
            i # j => ContentIdentity(last.docs[i]) # ContentIdentity(last.docs[j])

\* two sub-strategies answered with documents of one content-identity and the
\* ensemble returned documents
C8_Merged ==
    /\ run.phase = "done"
    /\ last.docs # <<>>
    /\ \E x, y \in DOMAIN run.results :
        /\ x # y
        /\ \E i \in DOMAIN run.results[x].docs, j \in DOMAIN run.results[y].docs :
              ContentIdentity(run.results[x].docs[i]) = ContentIdentity(run.results[y].docs[j])

\* the sequence s in every order
Orders(s) ==
    {[i \in DOMAIN s |-> s[p[i]]] :
        p \in {q \in [DOMAIN s -> DOMAIN s] : \A a, b \in DOMAIN s : q[a] = q[b] => a = b}}

\* the fusion as (content-identity, score) pairs, in result order
Scored(fused) == [i \in DOMAIN fused |-> <<ContentIdentity(fused[i].doc), fused[i].score>>]

\* the fusion of the finished retrieve had the sub-strategies been configured in
\* the order names
FusedIn(names) == apply_rrf_fusion(Asked(names), ens.strategy_weights)

\* C9 as the specification words it: the fused result (documents, order, scores)
\* of the ensemble is the same for every order of its sub-strategies.
C9_Commutative ==
    run.phase = "done" =>
        \A names \in Orders(run.tasks) :
            Take(Scored(FusedIn(names)), ens.k) = Take(Scored(FusedIn(run.tasks)), ens.k)

\* C9, amended: for every order in which the sub-strategies are configured the
\* fusion holds the same documents with the same scores, in descending order of
\* score; the order among documents of equal score follows the configured order.
\* The result is the fusion in configured order, whatever the order in which the
\* sub-strategies completed.
C9_SameScoresAnyOrder ==
    run.phase = "done" =>
        /\ \A names \in Orders(run.tasks) :
              /\ Range(Scored(FusedIn(names))) = Range(Scored(FusedIn(run.tasks)))
              /\ \A i, j \in DOMAIN FusedIn(names) :
                    i < j => FusedIn(names)[i].score >= FusedIn(names)[j].score
        /\ [i \in DOMAIN last.docs |->
               <<ContentIdentity(last.docs[i]), last.docs[i].metadata.rrf_score>>]
             = Take(Scored(FusedIn(run.tasks)), ens.k)

\* a parallel retrieve whose sub-strategies completed in another order than the
\* configured one has returned two documents of equal score
C9_TieOutOfOrder ==
    /\ run.phase = "done"
    /\ ens.enable_parallel
    /\ run.completed # run.tasks
    /\ Len(last.docs) >= 2
    /\ last.docs[1].metadata.rrf_score = last.docs[2].metadata.rrf_score

\* add_strategy(X, w) directly followed by remove_strategy(X), as positions in hist
AddRemovePairs ==
    {i \in 1..(Len(hist) - 1) :
        /\ hist[i].op = "add"
        /\ hist[i + 1].op = "remove"
        /\ hist[i + 1].strategy = hist[i].strategy
        /\ hist[i + 1].before = hist[i].after}

\* C10 as the specification words it: after add_strategy(X, w) and
\* remove_strategy(X) the members and their weights are what they were, whether
\* or not X was a member or had a weight.
C10_AddRemoveNoOp ==
    \A i \in AddRemovePairs :
        /\ hist[i + 1].after.strategies = hist[i].before.strategies
        /\ \A x \in Range(hist[i].before.strategies) :
              DictGet(hist[i + 1].after.strategy_weights, x, 1) =
              DictGet(hist[i].before.strategy_weights, x, 1)

\* C10, amended: when X was not a member, the pair leaves the members and their
\* weights as they were, drops any weight X had, and leaves _initialized False so
\* that the next retrieve creates the sub-retrievers again; when X was a member,
\* add_strategy changes nothing and the pair removes X, its weight and its retriever.
C10_AddRemoveByMembership ==
    \A i \in AddRemovePairs :
        LET b == hist[i].before
            a == hist[i + 1].after
            X == hist[i].strategy
        IN  IF X \notin Range(b.strategies)
            THEN /\ a.strategies = b.strategies
                 /\ a.strategy_weights = DictPop(b.strategy_weights, X)
                 /\ a.retrievers = b.retrievers \ {X}
                 /\ ~a.initialized
            ELSE /\ hist[i].after = b
                 /\ a.strategies = ListRemove(b.strategies, X)
                 /\ X \notin Range(a.strategies)
                 /\ a.strategy_weights = DictPop(b.strategy_weights, X)
                 /\ a.retrievers = b.retrievers \ {X}
                 /\ a.initialized = b.initialized

\* the pair was made with a strategy that was not a member but had a weight
C10_PairOnStaleWeight ==
    \E i \in AddRemovePairs :
        /\ hist[i].strategy \notin Range(hist[i].before.strategies)
        /\ hist[i].strategy \in DOMAIN hist[i].before.strategy_weights
        /\ hist[i].before.initialized

(***************************************************************************)
(* The strategy factory: RetrieverFactory.create, the auto-selection from  *)
(* the query, and the callers that ask the factory for a retriever and     *)
(* then serve a query with it.                                             *)
(*                                                                         *)
(* A query string is modelled as the sequence of its whitespace-separated  *)
(* words (query.split()).  `keyword in query_lower` is substring           *)
(* containment, so a word can hold a keyword without being it ("capital"   *)
(* holds "api", "show" holds "how").                                       *)
(*                                                                         *)
(* In the specification SpecFactory, retriever holds the retriever the     *)
(* factory returned last and last holds the last query served with the     *)
(* strategy that served it; cache, ens, run and hist are not used.         *)
(***************************************************************************)
MaxHead == 2     \* a query starts with up to MaxHead words of the Vocabulary
MaxPad == 10     \* followed by up to MaxPad plain words

\* the words queries are written with, as typed
Vocabulary == {"What", "who", "capital", "show", "explain", "data"}

\* str.lower() of a word
Lower(word) == IF word = "What" THEN "what" ELSE word

\* the keywords of _select_auto_strategy that occur inside a lowercased word
KeywordsInside(word) ==
    CASE word = "what"    -> {"what"}
      [] word = "who"     -> {"who"}
      [] word = "capital" -> {"api"}
      [] word = "show"    -> {"how"}
      [] word = "explain" -> {"explain"}
      [] OTHER            -> {}

Pad(n) == [i \in 1..n |-> "data"]

\* the query strings considered, as word sequences
AutoQueries == { head \o Pad(n) : head \in SeqsUpTo(Vocabulary, MaxHead), n \in 0..MaxPad }

FactualKeywords == {"what", "when", "where", "who"}

TechTerms == {"function", "class", "method", "api", "error", "bug", "fix"}

ConceptualKeywords == {"explain", "how", "why", "compare"}

\* any(keyword in query_lower for keyword in keywords)
AnyKeywordIn(query, keywords) ==
    \E i \in 1..Len(query) : KeywordsInside(Lower(query[i])) \cap keywords # {}

\* RetrieverFactory._select_auto_strategy(query)
select_auto_strategy(query) ==
    LET query_length == Len(query)
    IN  IF query_length <= 3 /\ AnyKeywordIn(query, FactualKeywords) THEN "bm25"
        ELSE IF AnyKeywordIn(query, TechTerms) THEN "bm25"
        ELSE IF query_length > 10 \/ AnyKeywordIn(query, ConceptualKeywords)
             THEN "ensemble"
        ELSE IF 4 <= query_length /\ query_length <= 10 THEN "vector"
        ELSE "ensemble"

\* A keyword argument is the sequence of the values passed for it: none or one.
Absent == <<>>

\* kwargs.get("query", "")
KwargsQuery(kwargs) == IF kwargs.query = Absent THEN <<>> ELSE kwargs.query[1]

NoRetriever ==
    [outcome |-> "none", requested |-> "none", registered |-> "none",
     strategy_name |-> "none", k |-> 0, enable_caching |-> FALSE]

\* RetrieverFactory.create(strategy, **kwargs): the retriever object returned, or
\* the ValueError raised for a name that is not registered.  The constructors
\* take k and enable_caching and drop the other keyword arguments (**kwargs).
RetrieverFactory_create(strategy, kwargs) ==
    LET selected == IF strategy = "auto"
                    THEN select_auto_strategy(KwargsQuery(kwargs))
                    ELSE strategy
    IN  IF selected \notin Registered
        THEN [NoRetriever EXCEPT !.outcome = "ValueError", !.requested = strategy]
        ELSE [outcome |-> "created", requested |-> strategy, registered |-> selected,
              strategy_name |-> StrategyName(selected), k |-> kwargs.k,
              enable_caching |-> kwargs.enable_caching]

\* BaseRetriever.get_info(): the keys every strategy reports
get_info(r) ==
    [strategy |-> r.strategy_name, k |-> r.k, enable_caching |-> r.enable_caching]

\* the names a caller may ask the factory for
RequestedNames == Registered \cup {"auto", "unknown"}

NotServed == [requested |-> "none", query |-> <<>>, served_by |-> "none",
              outcome |-> "none"]

\* retriever.retrieve(query) on the retriever the factory returned
Served(r, query) ==
    [requested |-> r.requested, query |-> query, served_by |-> r.registered,
     outcome |-> "served"]

\* the caller has one query at hand (run.query), drawn from AutoQueries
InitFactory ==
    /\ retriever = NoRetriever
    /\ last = NotServed
    /\ cache = EmptyDict
    /\ ens = NoEnsemble
    /\ \E query \in AutoQueries : run = [Idle EXCEPT !.query = query]
    /\ hist = <<>>

\* RetrieverFactory.create(strategy, k=..., enable_caching=..., [query=...])
FactoryCreate ==
    /\ \E strategy \in RequestedNames, self_k \in 1..MaxK, caching \in BOOLEAN,
          query \in {Absent, <<run.query>>} :
        retriever' = RetrieverFactory_create(strategy,
                        [k |-> self_k, enable_caching |-> caching, query |-> query])
    /\ last' = NotServed
    /\ UNCHANGED <<cache, ens, run, hist>>

\* retrieve(query) on the retriever created last
CreatedRetrieve ==
    /\ retriever.outcome = "created"
    /\ last' = Served(retriever, run.query)
    /\ UNCHANGED <<retriever, cache, ens, run, hist>>

\* the agent's tool retrieve_documents(query, strategy): the factory is asked for
\* the strategy with k and enable_caching only, then the query is retrieved; the
\* ValueError of an unknown name escapes the tool
RetrieveDocumentsTool ==
    /\ \E strategy \in RequestedNames, max_results \in 1..MaxK,
          enable_cache \in BOOLEAN :
        LET r == RetrieverFactory_create(strategy,
                    [k |-> max_results, enable_caching |-> enable_cache,
                     query |-> Absent])
        IN  /\ retriever' = r
            /\ last' = IF r.outcome = "created"
                       THEN Served(r, run.query)
                       ELSE [NotServed EXCEPT !.requested = strategy,
                                              !.query = run.query,
                                              !.outcome = "ValueError"]
    /\ UNCHANGED <<cache, ens, run, hist>>

NextFactory ==
    \/ FactoryCreate
    \/ CreatedRetrieve
    \/ RetrieveDocumentsTool

SpecFactory == InitFactory /\ [][NextFactory]_vars

\* C11: when a retriever is requested under the name auto, the strategy that
\* serves a query is the one the feature table gives for that query: at most 3
\* words and a factual keyword -> keyword (bm25); a technical term -> keyword;
\* more than 10 words or a conceptual keyword -> ensemble; 4 to 10 words ->
\* vector; otherwise ensemble.
C11_AutoFollowsServedQuery ==
    (last.outcome = "served" /\ last.requested = "auto")
        => last.served_by = select_auto_strategy(last.query)

\* C12: for every registered name, the retriever created under that name
\* reports the name back: create(name).get_info().strategy = name.
C12_InfoReportsName ==
    (retriever.outcome = "created" /\ retriever.requested \in Registered)
        => get_info(retriever).strategy = retriever.requested

(***************************************************************************)
(* The metrics record of the pipeline wrapper (specification Spec).        *)
(***************************************************************************)
\* C16: each retrieve call that completes emits exactly one RetrievalMetrics
\* record, whether it completed by cache hit, by fresh computation or by
\* strategy failure; the record's num_results is the number of documents
\* returned, and 0 on failure.
C16_OneMetricsRecord ==
    last.outcome \in {"returned", "raised"}
        => /\ Len(last.metrics) = 1
           /\ last.metrics[1].num_results = Len(last.docs)
           /\ last.outcome = "raised" => last.metrics[1].num_results = 0

(***************************************************************************)
(* Ingestion metadata of the returned documents (specification Spec).      *)
(***************************************************************************)
\* the documents as they were ingested
IngestedDocs == StoreDocs \cup {DocT, DocM}

\* every metadata key of the ingested document is in doc with its ingestion value
KeepsIngestionMetadata(doc, ingested) ==
    /\ doc.page_content = ingested.page_content
    /\ \A key \in DOMAIN ingested.metadata :
          /\ key \in DOMAIN doc.metadata
          /\ doc.metadata[key] = ingested.metadata[key]

\* C19: for every document returned by any strategy, every metadata key that
\* the document had at ingestion is still present with its ingestion value:
\* strategies add their keys and never overwrite ingestion metadata.
C19_IngestionMetadataKept ==
    last.outcome = "returned"
        => \A i \in DOMAIN last.docs :
              \E ingested \in IngestedDocs : KeepsIngestionMetadata(last.docs[i], ingested)

(***************************************************************************)
(* The quality evaluator (eval/metrics.py).                                *)
(*                                                                         *)
(* A float is a record [nan, tenths]: not-a-number, or the value           *)
(* tenths/10.  An LLM reply is the sequence of the whitespace-separated    *)
(* tokens of response.content; a token is a record [kind, tenths, comma]:  *)
(* a decimal numeral (written with a comma or a point), the numeral "nan", *)
(* which float() accepts, or other text.                                   *)
(*                                                                         *)
(* In the specification SpecEval, hist holds the behaviour of the LLM and  *)
(* last the scores of the last evaluation; the other variables are not     *)
(* used.                                                                   *)
(***************************************************************************)
Float(tenths) == [nan |-> FALSE, tenths |-> tenths]

NaN == [nan |-> TRUE, tenths |-> 0]

\* x < y and x > y on floats: every comparison with not-a-number is False
FloatLess(x, y) == ~x.nan /\ ~y.nan /\ x.tenths < y.tenths

FloatGreater(x, y) == FloatLess(y, x)

\* Python's max(a, b) and min(a, b): the first argument unless the second is
\* greater (smaller)
PyMax(a, b) == IF FloatGreater(b, a) THEN b ELSE a

PyMin(a, b) == IF FloatLess(b, a) THEN b ELSE a

\* x + y on floats
FloatAdd(x, y) == IF x.nan \/ y.nan THEN NaN ELSE Float(x.tenths + y.tenths)

Numeral(tenths, comma) == [kind |-> "decimal", tenths |-> tenths, comma |-> comma]

NanToken == [kind |-> "nan", tenths |-> 0, comma |-> FALSE]

TextToken == [kind |-> "text", tenths |-> 0, comma |-> FALSE]

\* token.replace(',', '.')
ReplaceComma(token) == [token EXCEPT !.comma = FALSE]

\* float(text): [raised, value]; a numeral written with a comma is a ValueError
PyFloat(token) ==
    CASE token.kind = "decimal" /\ ~token.comma ->
            [raised |-> FALSE, value |-> Float(token.tenths)]
      [] token.kind = "nan" -> [raised |-> FALSE, value |-> NaN]
      [] OTHER -> [raised |-> TRUE, value |-> NaN]

\* the default score of a metric whose LLM call or parse failed: 0.5
DefaultScoreTenths == 5

\* the body shared by _calculate_answer_relevancy, _calculate_context_precision,
\* _calculate_context_recall and _calculate_faithfulness:
\*   try: response = await llm.ainvoke(prompt)
\*        score = float(response.content.strip().split()[0].replace(',', '.'))
\*        return min(max(score, 0.0), 1.0)
\*   except Exception: return 0.5
ParseScore(llm_reply) ==
    IF llm_reply.raised \/ llm_reply.tokens = <<>>
    THEN Float(DefaultScoreTenths)
    ELSE LET parsed == PyFloat(ReplaceComma(llm_reply.tokens[1]))
         IN  IF parsed.raised THEN Float(DefaultScoreTenths)
             ELSE PyMin(PyMax(parsed.value, Float(0)), Float(10))

\* what llm.ainvoke(prompt) can do: raise, or answer with a text
LlmReply(tokens) == [raised |-> FALSE, tokens |-> tokens]

EvalLlmRaises == [raised |-> TRUE, tokens |-> <<>>]

\* the numerals an LLM writes, in tenths
ReplyTenths == {-5, 0, 8, 10, 25}

EvalLlmBehaviours ==
    {EvalLlmRaises, LlmReply(<<>>), LlmReply(<<TextToken, Numeral(8, FALSE)>>),
     LlmReply(<<NanToken>>)}
    \cup { LlmReply(<<Numeral(t, FALSE), TextToken>>) : t \in ReplyTenths }
    \cup { LlmReply(<<Numeral(8, TRUE)>>) }

MetricNames == <<"answer_relevancy", "context_precision", "context_recall", "faithfulness">>

\* _llm_based_ragas_evaluation, where replies[i] is what the LLM does on the
\* prompt of the i-th metric.  overall = (sum of the four) / 4.0 is kept as the
\* sum: overall_score = overall_x4 / 4.
llm_based_ragas_evaluation(replies) ==
    LET relevancy    == ParseScore(replies[1])
        precision    == ParseScore(replies[2])
        recall       == ParseScore(replies[3])
        faithfulness == ParseScore(replies[4])
    IN  [answer_relevancy |-> relevancy, context_precision |-> precision,
         context_recall |-> recall, faithfulness |-> faithfulness,
         overall_x4 |-> FloatAdd(FloatAdd(FloatAdd(relevancy, precision), recall),
                                 faithfulness)]

NoScores == [evaluated |-> FALSE, replies |-> <<>>, scores |-> <<>>]

\* hist holds what the LLM does on the four prompts of the evaluation
InitEval ==
    /\ last = NoScores
    /\ retriever = NoRetriever
    /\ cache = EmptyDict
    /\ ens = NoEnsemble
    /\ run = Idle
    /\ \E r1 \in EvalLlmBehaviours, r2 \in EvalLlmBehaviours,
          r3 \in EvalLlmBehaviours, r4 \in EvalLlmBehaviours :
        hist = <<r1, r2, r3, r4>>

\* the agent's tool evaluate_response(question, answer, contexts), which is
\* calculate_ragas_metrics without the ragas package: four LLM calls
EvaluateResponse ==
    /\ last' = [evaluated |-> TRUE, replies |-> hist,
                scores |-> llm_based_ragas_evaluation(hist)]
    /\ UNCHANGED <<retriever, cache, ens, run, hist>>

NextEval == EvaluateResponse

SpecEval == InitEval /\ [][NextEval]_vars

\* the score the claim gives for one LLM behaviour: the first token parsed and
\* clamped to [0, 1], or 0.5 when it cannot be parsed or the call fails
ClaimedScore(llm_reply) ==
    IF llm_reply.raised \/ llm_reply.tokens = <<>> THEN Float(5)
    ELSE LET token == llm_reply.tokens[1]
         IN  IF token.kind = "decimal"
             THEN Float(Max(0, Min(10, token.tenths)))
             ELSE Float(5)

\* C17: for every LLM behaviour (any reply text, or a failing call), each of
\* the four scores is a number in [0, 1], the parsed first token clamped to
\* [0, 1], or 0.5 when the reply cannot be parsed or the call fails, and
\* overall_score is the unweighted mean of the four.
C17_ScoresInUnitInterval ==
    last.evaluated =>
        /\ \A i \in 1..4 :
              LET score == last.scores[MetricNames[i]]
              IN  /\ ~score.nan
                  /\ 0 <= score.tenths /\ score.tenths <= 10
                  /\ score = ClaimedScore(last.replies[i])
        /\ ~last.scores.overall_x4.nan
        /\ last.scores.overall_x4.tenths =
              last.scores.answer_relevancy.tenths + last.scores.context_precision.tenths
              + last.scores.context_recall.tenths + last.scores.faithfulness.tenths

(***************************************************************************)
(* Sub-strategy calls that never return (retrievers/ensemble.py).          *)
(*                                                                         *)
(* SpecLive is the fan-out of an EnsembleRetriever with the scheduling of  *)
(* the event loop: a task that can complete does complete, and the gather  *)
(* resumes once every task has completed.  The variables are those of      *)
(* Spec.  A sub-retriever's retrieve awaits its adapters (vector store,    *)
(* LLM) with no deadline of its own, and _retrieve_parallel and            *)
(* _retrieve_sequential await the sub-retrievers with none either, so a    *)
(* task whose adapter never answers stays pending.                         *)
(***************************************************************************)
InitLive ==
    /\ Init
    /\ retriever.strategy = "ensemble"

\* the sub-strategies whose retrieve awaits an adapter call: the vector store
\* search, and whatever a custom strategy calls.  The keyword strategy awaits
\* nothing that suspends.
AwaitsAdapter == {"vector", "custom"}

\* the adapter call awaited by one sub-retriever's retrieve never answers
SubStrategyHangs ==
    /\ run.phase = "fanout"
    /\ \E i \in DOMAIN run.tasks :
        /\ run.tasks[i] \notin DOMAIN run.results
        /\ run.tasks[i] \notin run.hung
        /\ run.tasks[i] \in AwaitsAdapter
        /\ ens.enable_parallel \/ \A j \in 1..(i - 1) : run.tasks[j] \in DOMAIN run.results
        /\ run' = [run EXCEPT !.hung = @ \cup {run.tasks[i]}]
    /\ UNCHANGED <<retriever, cache, last, ens, hist>>

\* the step of EnsembleEnd as the fan-out sees it: asyncio.gather resumes
\* _retrieve_parallel once every task has completed
GatherResumes ==
    /\ run.phase = "fanout"
    /\ \A i \in DOMAIN run.tasks : run.tasks[i] \in DOMAIN run.results
    /\ run' = [run EXCEPT !.phase = "done"]

NextLive ==
    \/ EnsembleBegin
    \/ SubStrategyReturns
    \/ SubStrategyHangs
    \/ EnsembleEnd

SpecLive ==
    /\ InitLive
    /\ [][NextLive]_vars
    /\ WF_vars(SubStrategyReturns)
    /\ WF_run(GatherResumes)

\* C15: a retrieve on an ensemble that has started its sub-strategy calls
\* completes, whatever a sub-strategy does: a sub-strategy call that never
\* returns counts as a failure with an empty contribution.
C15_ParentCompletes ==
    (run.phase = "fanout") ~> (run.phase = "done")

(***************************************************************************)
(* Rebuilding the keyword index (retrievers/bm25.py).                      *)
(*                                                                         *)
(* SpecIndex is one BM25Retriever used by several asyncio tasks.  Here     *)
(*   retriever  is the instance: k, enable_caching, _bm25_index and        *)
(*              _documents (None and [] are both <<>>: the code only tests *)
(*              "not self._documents"), and built_from, the content of the *)
(*              document store when the fields were last assigned;         *)
(*   hist       is the content of the document store;                      *)
(*   run        tells whether a rebuild_index or add_documents task has    *)
(*              been created and has not finished, with the documents      *)
(*              passed to add_documents, and which such call finished      *)
(*              since the last retrieve;                                   *)
(*   last       is what the last retrieve observed and returned;           *)
(*   cache      is the cache store; ens is not used.                       *)
(* A coroutine runs without interruption up to an await that suspends.     *)
(* rebuild_index awaits only _ensure_index_loaded, whose one await,        *)
(* doc_store.get_all_documents(), raises before it suspends, so the body   *)
(* of a rebuild is one step; a retrieve reads the index fields in one step *)
(* too.  What remains of the concurrency is the order of the tasks.        *)
(***************************************************************************)
MaxStored == 2

\* BM25Retriever._ensure_index_loaded on an instance
ensure_index_loaded(r, doc_store, stored) ==
    IF r.bm25_index # "None"
    THEN [bm25_index |-> r.bm25_index, documents |-> r.documents,
          built_from |-> r.built_from]
    ELSE LET loaded == EnsureIndexLoaded(doc_store, stored)
         IN  [bm25_index |-> loaded.bm25_index, documents |-> loaded.documents,
              built_from |-> stored]

\* BM25Retriever.rebuild_index: both fields are cleared, then loaded again;
\* nothing keeps a retrieve from running between two rebuilds or sees to it
\* that the fields are replaced only by a finished build
rebuild_index(r, doc_store, stored) ==
    ensure_index_loaded([r EXCEPT !.bm25_index = "None", !.documents = <<>>],
                        doc_store, stored)

\* no rebuild_index or add_documents call has finished since the last retrieve
NoneFinished == [op |-> "none", documents |-> <<>>, stored |-> <<>>]

NoRebuild == [phase |-> "idle", op |-> "none", documents |-> <<>>, finished |-> NoneFinished]

\* add_documents(documents): the argument is not used, the call is
\* rebuild_index()
add_documents(r, documents, doc_store, stored) == rebuild_index(r, doc_store, stored)

NotRetrieved ==
    [called |-> FALSE, during_rebuild |-> FALSE, index_seen |-> "None",
     documents_seen |-> <<>>, old_build |-> <<>>, stored |-> <<>>,
     after |-> NoneFinished, outcome |-> "none", docs |-> <<>>]

InitIndex ==
    /\ cache = EmptyDict
    /\ ens = NoEnsemble
    /\ run = NoRebuild
    /\ last = NotRetrieved
    /\ hist \in SeqsUpTo(StoreDocs, 1)
    /\ \E self_k \in 1..MaxK, caching \in BOOLEAN :
        retriever = [strategy |-> "bm25", k |-> self_k, enable_caching |-> caching,
                     bm25_index |-> "None", documents |-> <<>>, built_from |-> <<>>]

\* a document is added to the document store (DocumentStore.add_documents)
StoreAddDocument ==
    /\ Len(hist) < MaxStored
    /\ \E doc \in StoreDocs : hist' = Append(hist, doc)
    /\ UNCHANGED <<retriever, cache, last, ens, run>>

\* a task is created for rebuild_index() or for add_documents(documents),
\* which only calls rebuild_index
RebuildBegin ==
    /\ run.phase = "idle"
    /\ \/ run' = [run EXCEPT !.phase = "rebuilding", !.op = "rebuild_index"]
       \/ \E doc \in StoreDocs :
            run' = [run EXCEPT !.phase = "rebuilding", !.op = "add_documents",
                               !.documents = <<doc>>]
    /\ UNCHANGED <<retriever, cache, last, ens, hist>>

\* the body of rebuild_index or of add_documents runs
RebuildBody ==
    /\ run.phase = "rebuilding"
    /\ LET loaded == IF run.op = "add_documents"
                     THEN add_documents(retriever, run.documents, get_document_store, hist)
                     ELSE rebuild_index(retriever, get_document_store, hist)
       IN  retriever' = [retriever EXCEPT !.bm25_index = loaded.bm25_index,
                                          !.documents = loaded.documents,
                                          !.built_from = loaded.built_from]
    /\ run' = [NoRebuild EXCEPT !.finished = [op |-> run.op, documents |-> run.documents,
                                              stored |-> hist]]
    /\ UNCHANGED <<cache, last, ens, hist>>

\* retrieve(query) on the instance, in a task of its own: before, between or
\* after the steps of a rebuild
RetrieveIndexed ==
    /\ \E query \in Queries, redis_up \in BOOLEAN :
        LET loaded == ensure_index_loaded(retriever, get_document_store, hist)
            r == retrieve(StrategyName("bm25"), query, retriever.k,
                          retriever.enable_caching, cache, redis_up,
                          BM25Retriever_impl(loaded,
                                             [i \in DOMAIN loaded.documents |-> 1],
                                             retriever.k))
        IN  /\ cache' = r.store
            /\ retriever' = [retriever EXCEPT !.bm25_index = loaded.bm25_index,
                                              !.documents = loaded.documents,
                                              !.built_from = loaded.built_from]
            /\ last' = [called |-> TRUE, during_rebuild |-> run.phase = "rebuilding",
                        index_seen |-> loaded.bm25_index,
                        documents_seen |-> loaded.documents,
                        old_build |-> retriever.built_from, stored |-> hist,
                        after |-> run.finished,
                        outcome |-> r.outcome, docs |-> r.docs]
    /\ run' = [run EXCEPT !.finished = NoneFinished]
    /\ UNCHANGED <<ens, hist>>

NextIndex ==
    \/ StoreAddDocument
    \/ RebuildBegin
    \/ RebuildBody
    \/ RetrieveIndexed

SpecIndex == InitIndex /\ [][NextIndex]_vars

\* C20: a retrieve made while a rebuild of the keyword index is in progress,
\* on a retriever whose previous build and whose document store both hold
\* documents, finds an index, together with the document list of the previous
\* build or of the new one.
C20_RetrieveSeesCompleteIndex ==
    (last.called /\ last.during_rebuild /\ last.old_build # <<>> /\ last.stored # <<>>)
        => /\ last.index_seen # "None"
           /\ last.documents_seen \in {last.old_build, last.stored}

\* C21: the first retrieve after add_documents(D) or rebuild_index() has
\* finished, with documents available (in the store or in D), is served from
\* an index built from the documents available after the call, which include
\* D, and not from the index the retriever held before the call.
C21_NextRetrieveSeesRebuiltIndex ==
    (last.called /\ last.after.op # "none"
        /\ last.after.stored \o last.after.documents # <<>>)
        => /\ last.index_seen # "None"
           /\ Range(last.after.stored) \subseteq Range(last.documents_seen)
           /\ Range(last.after.documents) \subseteq Range(last.documents_seen)

(***************************************************************************)
(* The MCP surface (mcp/tools.py, mcp/resources.py).                       *)
(*                                                                         *)
(* SpecMcp is the server handling the requests of a client.  Here          *)
(*   last       is the last invocation that ended: the tool, its           *)
(*              arguments, whether it returned a response or let an        *)
(*              exception out, the response, and what went wrong inside;   *)
(*   run        is the strategy_compare in progress: its arguments, the    *)
(*              entries of the run_strategy tasks that have returned, and  *)
(*              the tasks whose retrieve never returns;                    *)
(*   cache      is the cache store; retriever, ens, hist are not used.     *)
(* A response is a record with the keys of the dict returned.  Durations   *)
(* and timestamps are not modelled: their value is Elapsed.  A question is *)
(* a sequence of words, as for the factory.  The requests are handled one  *)
(* at a time: the handlers share no state but the cache.                   *)
(***************************************************************************)
Elapsed == "elapsed"

McpQuestions == {<<"What", "data">>, <<"data">>}

McpStrategies == {"vector", "bm25", "custom", "unknown"}

\* doc.page_content[:n] + "..." if len(doc.page_content) > n else
\* doc.page_content, for n up to 500: the head of the first block of the
\* content, and whether the ellipsis follows
Snippet(doc, n) ==
    [head |-> doc.page_content[1], chars |-> n, ellipsis |-> Len(doc.page_content) > 1]

\* RetrieverFactory.create(strategy, k=self_k) followed by retrieve(query) on
\* the retriever created: what the caller gets, and whether an adapter other
\* than the cache failed on the way
FactoryRetrievals(strategy, query, self_k) ==
    LET created == RetrieverFactory_create(strategy,
                        [k |-> self_k, enable_caching |-> TRUE, query |-> Absent])
        Seen(r, failed) == [outcome |-> r.outcome, docs |-> r.docs,
                            adapter_failed |-> failed]
    IN  IF created.outcome = "ValueError"
        THEN {[outcome |-> "ValueError", docs |-> <<>>, adapter_failed |-> FALSE]}
        ELSE CASE created.registered = "vector" ->
                { LET store == ensure_vector_store("None", connect_ok)
                  IN  Seen(retrieve(created.strategy_name, query, self_k, TRUE, cache, TRUE,
                                    VectorRetriever_impl(store, answer, 0, DefaultCollection)),
                           store = "None" \/ answer.raised) :
                    connect_ok \in BOOLEAN, answer \in StoreAnswers(self_k) }
               [] created.registered = "custom" ->
                { Seen(retrieve(created.strategy_name, query, self_k, TRUE, cache, TRUE, impl),
                       impl.raised) :
                    impl \in {ImplRaised} \cup
                             {ImplReturns(d) : d \in SeqsUpTo({DocA2, DocB}, 1)} }
               [] OTHER ->
                { Seen(retrieve(created.strategy_name, query, self_k, TRUE, cache, TRUE,
                                BM25Retriever_impl(
                                    EnsureIndexLoaded(get_document_store, <<>>),
                                    <<>>, self_k)),
                       FALSE) }

\* what a handler gives the transport: the dict it returns
Returned(response) == [outcome |-> "returned", response |-> response]

\* the exception of a handler leaves it
Escaped(error) == [outcome |-> "raised", response |-> [error |-> error]]

(***************************************************************************)
(* The resource retriever://{strategy}/{query} (mcp/resources.py).         *)
(***************************************************************************)
ResourceK == 10

\* the list comprehension over enumerate(documents)
ResourceDocuments(documents) ==
    [i \in DOMAIN documents |->
        [content |-> documents[i].page_content, metadata |-> documents[i].metadata,
         rank |-> i]]

\* A mutant of retrieval_resource: the exception of the retrieval is not caught.
retrieval_resource_Unhandled(strategy, query, retrieval) ==
    IF retrieval.outcome # "returned" THEN Escaped(retrieval.outcome)
    ELSE Returned([documents |-> ResourceDocuments(retrieval.docs), query |-> query,
                   strategy |-> strategy, num_results |-> Len(retrieval.docs),
                   retrieval_time_ms |-> Elapsed, timestamp |-> Elapsed,
                   resource_type |-> "retrieval"])

\* retrieval_resource(strategy, query), where retrieval is what
\* RetrieverFactory.create(strategy, k=10) and retrieve(decoded_query) do.  The
\* queries considered hold no percent-escape: unquote(query) leaves them as
\* they are.
retrieval_resource(strategy, query, retrieval) ==
    IF retrieval.outcome # "returned"
    THEN Returned([error |-> retrieval.outcome, query |-> query, strategy |-> strategy,
                   retrieval_time_ms |-> Elapsed, resource_type |-> "retrieval"])
    ELSE Returned([documents |-> ResourceDocuments(retrieval.docs), query |-> query,
                   strategy |-> strategy, num_results |-> Len(retrieval.docs),
                   retrieval_time_ms |-> Elapsed, timestamp |-> Elapsed,
                   resource_type |-> "retrieval"])

(***************************************************************************)
(* research_deep (mcp/tools.py).                                           *)
(***************************************************************************)
\* What the agent does for one research_deep: create_research_agent returns an
\* agent, returns the fallback dict (create_deep_agent raised ImportError) or
\* raises; agent.arun raises or returns a dict with the documents retrieved.
\* The fallback dict has no attribute arun: agent.arun raises AttributeError.
AgentBehaviours ==
    {[create |-> "raised", arun_raised |-> FALSE, retrieved_documents |-> <<>>],
     [create |-> "fallback", arun_raised |-> TRUE, retrieved_documents |-> <<>>],
     [create |-> "agent", arun_raised |-> TRUE, retrieved_documents |-> <<>>]} \cup
    {[create |-> "agent", arun_raised |-> FALSE, retrieved_documents |-> d] :
        d \in SeqsUpTo({DocA, DocB}, 2)}

\* What calculate_ragas_metrics does: it raises (the ragas call fails, or
\* get_llm_for_evaluation does), or the four metric prompts get these replies.
RagasBehaviours ==
    {[raised |-> TRUE, replies |-> <<>>]} \cup
    {[raised |-> FALSE, replies |-> r] :
        r \in {[i \in 1..4 |-> LlmReply(<<Numeral(8, FALSE)>>)],
               <<EvalLlmRaises, LlmReply(<<>>), LlmReply(<<Numeral(10, FALSE)>>),
                 LlmReply(<<Numeral(25, TRUE)>>)>>}}

\* calculate_ragas_metrics(...) when it returns
calculate_ragas_metrics(ragas) == llm_based_ragas_evaluation(ragas.replies)

\* result["sources"]
Sources(retrieved_docs, max_results) ==
    [i \in 1..Min(Len(retrieved_docs), max_results) |->
        [content |-> Snippet(retrieved_docs[i], 500),
         metadata |-> retrieved_docs[i].metadata, rank |-> i]]

\* research_deep(question, strategy, max_results, include_sources,
\* enable_evaluation)
research_deep(question, strategy, max_results, include_sources, enable_evaluation, agent, ragas) ==
    LET failure(error) ==
            Returned([error |-> error, question |-> question,
                      strategy_attempted |-> strategy,
                      processing_time_seconds |-> Elapsed])
        retrieved_docs == agent.retrieved_documents
        result == [answer |-> "output", question |-> question,
                   strategy_used |-> strategy, num_sources |-> Len(retrieved_docs),
                   processing_time_seconds |-> Elapsed, timestamp |-> Elapsed]
        with_sources ==
            IF include_sources /\ retrieved_docs # <<>>
            THEN DictUpdate(result, [sources |-> Sources(retrieved_docs, max_results)])
            ELSE result
        with_scores ==
            IF enable_evaluation /\ retrieved_docs # <<>>
            THEN DictUpdate(with_sources,
                    [ragas_scores |-> IF ragas.raised THEN [error |-> "Exception"]
                                      ELSE calculate_ragas_metrics(ragas)])
            ELSE with_sources
    IN  IF agent.create = "raised" THEN failure("Exception")
        ELSE IF agent.create = "fallback" THEN failure("AttributeError")
        ELSE IF agent.arun_raised THEN failure("Exception")
        ELSE Returned(with_scores)

(***************************************************************************)
(* evaluate_rag (mcp/tools.py, eval/harness.py, eval/metrics.py).          *)
(***************************************************************************)
MaxSamples == 2

\* Step(arg), with arg computed once and then used as a value
Once(Step(_), arg) == CHOOSE result \in {Step(value) : value \in {arg}} : TRUE

EvalK == 5

\* What happens to one sample of the golden dataset: the retrieval or the
\* generation of the answer raises or not (it is evaluated in both cases), and
\* what calculate_ragas_metrics does on it.
SampleBehaviours ==
    [processing_raised : BOOLEAN, ragas : RagasBehaviours]

\* What load_golden_dataset does: it raises, or returns the samples.
DatasetBehaviours ==
    {[raised |-> TRUE, samples |-> <<>>]} \cup
    {[raised |-> FALSE, samples |-> s] : s \in SeqsUpTo(SampleBehaviours, MaxSamples)}

\* all_scores: the scores of the samples whose evaluation returned, in order
RECURSIVE AllScores(_)
AllScores(samples) ==
    IF samples = <<>> THEN <<>>
    ELSE IF samples[1].ragas.raised THEN AllScores(Tail(samples))
         ELSE <<calculate_ragas_metrics(samples[1].ragas)>> \o AllScores(Tail(samples))

\* failed_samples: the indices, from 0, of the samples whose evaluation raised
RECURSIVE FailedSamples(_, _)
FailedSamples(samples, i) ==
    IF i > Len(samples) THEN <<>>
    ELSE IF samples[i].ragas.raised THEN <<i - 1>> \o FailedSamples(samples, i + 1)
         ELSE FailedSamples(samples, i + 1)

\* sum(values) on floats
RECURSIVE FloatSum(_)
FloatSum(values) ==
    IF values = <<>> THEN Float(0)
    ELSE FloatAdd(values[1], FloatSum(Tail(values)))

\* sum(values) / len(values), where a value is scale times the number
\* averaged: the quotient num / den, or not-a-number
Average(values, scale) ==
    LET total == FloatSum(values)
    IN  [nan |-> total.nan, num |-> total.tenths, den |-> 10 * scale * Len(values)]

Zero == [nan |-> FALSE, num |-> 0, den |-> 1]

\* mean > hundredths / 100 and mean < hundredths / 100
MeanAbove(mean, hundredths) == ~mean.nan /\ mean.num * 100 > hundredths * mean.den

MeanBelow(mean, hundredths) == ~mean.nan /\ mean.num * 100 < hundredths * mean.den

\* batch_calculate_ragas_metrics(evaluation_samples)
batch_calculate_ragas_metrics(samples) ==
    LET Aggregate(all_scores) ==
            LET failed_samples == FailedSamples(samples, 1)
                Column(key) == [i \in DOMAIN all_scores |-> all_scores[i][key]]
            IN  IF all_scores = <<>> THEN [error |-> "All samples failed evaluation"]
                ELSE [num_samples |-> Len(samples),
                      num_successful |-> Len(all_scores),
                      num_failed |-> Len(failed_samples),
                      aggregate_scores |->
                          [answer_relevancy |-> Average(Column("answer_relevancy"), 1),
                           context_precision |-> Average(Column("context_precision"), 1),
                           context_recall |-> Average(Column("context_recall"), 1),
                           faithfulness |-> Average(Column("faithfulness"), 1),
                           overall_score |-> Average(Column("overall_x4"), 4)],
                      per_sample_scores |-> all_scores,
                      failed_samples |-> failed_samples]
    IN  Once(Aggregate, AllScores(samples))

\* RAGASEvaluator._analyze_strategy_performance(scores), for the strategies
\* bm25 and vector
analyze_strategy_performance(strategy, scores) ==
    LET overall == DictGet(scores, "overall_score", Zero)
    IN  IF strategy = "bm25"
        THEN [type |-> "Keyword-based",
              performance |-> IF MeanAbove(overall, 75) THEN "Good"
                              ELSE "Needs improvement"]
        ELSE [type |-> "Semantic similarity",
              performance |-> IF MeanAbove(overall, 85) THEN "Excellent" ELSE "Good"]

\* RAGASEvaluator._generate_insights(results)
generate_insights(strategy, results) ==
    LET scores == IF "aggregate_scores" \in DOMAIN results
                  THEN results["aggregate_scores"] ELSE EmptyDict
        Score(key) == DictGet(scores, key, Zero)
        When(condition, text) == IF condition THEN <<text>> ELSE <<>>
    IN  [strengths |->
            When(MeanAbove(Score("answer_relevancy"), 85), "Excellent answer relevancy")
            \o When(MeanAbove(Score("context_precision"), 80),
                    "High precision in document retrieval")
            \o When(MeanAbove(Score("faithfulness"), 90),
                    "Minimal hallucination, high faithfulness"),
         weaknesses |->
            When(MeanBelow(Score("answer_relevancy"), 70), "Low answer relevancy")
            \o When(MeanBelow(Score("context_precision"), 65), "Poor context precision")
            \o When(MeanBelow(Score("context_recall"), 70), "Insufficient context recall")
            \o When(MeanBelow(Score("faithfulness"), 80), "Faithfulness issues detected"),
         strategy_analysis |-> analyze_strategy_performance(strategy, scores)]

\* RAGASEvaluator(strategy).evaluate_dataset(dataset): [raised, error, results].
\* The retriever is created before the loop over the samples; the log line
\* before the return reads results['aggregate_scores']['overall_score'].
evaluate_dataset(strategy, samples) ==
    LET created == RetrieverFactory_create(strategy,
                        [k |-> EvalK, enable_caching |-> TRUE, query |-> Absent])
        WithMetadata(ragas_results) ==
            DictUpdate(ragas_results,
                [metadata |-> [strategy |-> strategy, dataset_size |-> Len(samples),
                               evaluation_time_seconds |-> Elapsed,
                               timestamp |-> Elapsed]])
        WithInsights(with_metadata) ==
            DictUpdate(with_metadata,
                [insights |-> generate_insights(strategy, with_metadata)])
        Logged(results) ==
            IF "aggregate_scores" \notin DOMAIN results
            THEN [raised |-> TRUE, error |-> "KeyError", results |-> EmptyDict]
            ELSE [raised |-> FALSE, error |-> "none", results |-> results]
    IN  IF created.outcome = "ValueError"
        THEN [raised |-> TRUE, error |-> "ValueError", results |-> EmptyDict]
        ELSE Once(Logged,
                  Once(WithInsights,
                       Once(WithMetadata, batch_calculate_ragas_metrics(samples))))

OutputFormats == {"summary", "detailed", "json"}

\* the keys of results that the summary format reads
SummaryKeys ==
    {"overall_score", "answer_relevancy", "context_precision", "context_recall",
     "faithfulness"}

\* Step 4 of evaluate_rag: the response in the output format asked for;
\* key_error is the response when a key read from results is missing
FormatResults(strategy, output_format, test_cases, results, key_error) ==
    CASE output_format = "summary" ->
                    IF SummaryKeys \subseteq DOMAIN results
                    THEN Returned(
                            [strategy |-> strategy, test_cases |-> test_cases,
                             overall_score |-> results["overall_score"],
                             metrics |->
                                 [answer_relevancy |-> results["answer_relevancy"],
                                  context_precision |-> results["context_precision"],
                                  context_recall |-> results["context_recall"],
                                  faithfulness |-> results["faithfulness"]],
                             evaluation_time_seconds |-> Elapsed,
                             timestamp |-> Elapsed])
                    ELSE key_error
               [] output_format = "detailed" ->
                    Returned([strategy |-> strategy, summary |-> results,
                              detailed_results |-> DictGet(results, "detailed_results", <<>>),
                              evaluation_time_seconds |-> Elapsed])
               [] OTHER -> Returned(results)

\* evaluate_rag(strategy, num_test_cases, output_format), where dataset is what
\* load_golden_dataset(limit=num_test_cases) does
evaluate_rag(strategy, output_format, dataset) ==
    LET failure(error) ==
            Returned([error |-> error, strategy |-> strategy,
                      evaluation_time_seconds |-> Elapsed])
        Format(evaluated) ==
            LET results == evaluated.results
            IN  IF evaluated.raised THEN failure(evaluated.error)
                ELSE FormatResults(strategy, output_format, Len(dataset.samples),
                                   results, failure("KeyError"))
    IN  IF dataset.raised THEN failure("Exception")
        ELSE IF dataset.samples = <<>>
        THEN Returned([error |-> "No test dataset available. Please create golden_set.jsonl",
                       suggestion |->
                           "Run the dataset generation script to create test cases"])
        ELSE Once(Format, evaluate_dataset(strategy, dataset.samples))


(***************************************************************************)
(* strategy_compare (mcp/tools.py).                                        *)
(***************************************************************************)
\* the strategy lists a client asks to compare
CompareRequests ==
    {<<"bm25", "vector">>, <<"custom", "vector">>, <<"unknown", "custom">>, <<"custom">>}

\* run_strategy(strategy), where retrieval is what RetrieverFactory.create(
\* strategy, k=max_results) and retrieve(question) do
run_strategy(strategy, retrieval) ==
    IF retrieval.outcome # "returned"
    THEN [strategy |-> strategy, success |-> FALSE, error |-> retrieval.outcome,
          latency_ms |-> Elapsed]
    ELSE [strategy |-> strategy, success |-> TRUE,
          num_results |-> Len(retrieval.docs), latency_ms |-> Elapsed,
          documents |-> [i \in 1..Min(Len(retrieval.docs), 3) |->
                            [content |-> Snippet(retrieval.docs[i], 200),
                             metadata |-> retrieval.docs[i].metadata, rank |-> i]]]

\* [r for r in entries if r["success"] == success]
RECURSIVE BySuccess(_, _)
BySuccess(entries, success) ==
    IF entries = <<>> THEN <<>>
    ELSE IF entries[1].success = success
         THEN <<entries[1]>> \o BySuccess(Tail(entries), success)
         ELSE BySuccess(Tail(entries), success)

\* sorted(successful_strategies, key=num_results, reverse=True)
ResultsRanking(successful) ==
    LET keyed == SortDesc([i \in DOMAIN successful |->
                              [score |-> successful[i].num_results,
                               entry |-> successful[i]]])
    IN  [i \in DOMAIN keyed |-> keyed[i].entry]

\* _generate_strategy_recommendations(question, successful, failed); fastest is
\* min(successful, key=latency_ms)
generate_strategy_recommendations(question, successful, failed, fastest) ==
    IF successful = <<>>
    THEN [primary_recommendation |-> "ensemble",
          reasoning |-> "All strategies failed",
          fallback_options |-> <<"vector", "bm25">>,
          issues_detected |-> [i \in DOMAIN failed |-> failed[i].error]]
    ELSE LET most_comprehensive == ResultsRanking(successful)[1]
             kind == IF AnyKeywordIn(question, {"what", "when", "where", "who"})
                     THEN [query_type |-> "factual", primary_rec |-> "bm25"]
                     ELSE IF AnyKeywordIn(question, {"how", "why", "explain"})
                     THEN [query_type |-> "conceptual", primary_rec |-> "ensemble"]
                     ELSE IF AnyKeywordIn(question,
                                          {"function", "class", "api", "error", "bug"})
                     THEN [query_type |-> "technical", primary_rec |-> "parent_doc"]
                     ELSE [query_type |-> "general", primary_rec |-> "ensemble"]
             names == {successful[i].strategy : i \in DOMAIN successful}
             primary_rec == IF kind.primary_rec \in names THEN kind.primary_rec
                            ELSE fastest.strategy
         IN  [primary_recommendation |-> primary_rec,
              reasoning |-> IF kind.primary_rec \in names THEN kind.query_type
                            ELSE "Fallback to fastest successful strategy",
              query_type |-> kind.query_type,
              performance_insights |->
                  [fastest_strategy |-> fastest.strategy,
                   fastest_time_ms |-> fastest.latency_ms,
                   most_comprehensive |-> most_comprehensive.strategy,
                   most_results |-> most_comprehensive.num_results],
              alternative_options |->
                  Take(SelectNames([i \in DOMAIN successful |-> successful[i].strategy],
                                   names \ {primary_rec}), 3)]

\* strategy_compare(question, strategies, max_results) once asyncio.gather has
\* returned strategy_results; completed is the order in which the tasks
\* returned.  The latency of a task is measured from its start and the tasks
\* start together, so ascending latency is the order of completion.
strategy_compare(question, strategies, strategy_results, completed) ==
    LET successful_strategies == BySuccess(strategy_results, TRUE)
        failed_strategies == BySuccess(strategy_results, FALSE)
        latency_ranking == BySuccess([i \in DOMAIN completed |->
                                         strategy_results[completed[i]]], TRUE)
        results_ranking == ResultsRanking(successful_strategies)
        recommendations ==
            generate_strategy_recommendations(question, successful_strategies,
                failed_strategies,
                IF latency_ranking = <<>> THEN [strategy |-> "none"]
                ELSE latency_ranking[1])
    IN  Returned([question |-> question, strategies_compared |-> strategies,
                  successful_strategies |-> Len(successful_strategies),
                  failed_strategies |-> Len(failed_strategies),
                  performance_rankings |->
                      [fastest |-> latency_ranking, most_results |-> results_ranking],
                  strategy_results |-> strategy_results,
                  recommendations |-> recommendations,
                  total_comparison_time_seconds |-> Elapsed,
                  timestamp |-> Elapsed])

(***************************************************************************)
(* The requests.                                                           *)
(***************************************************************************)
NoCompare ==
    [phase |-> "idle", question |-> <<>>, strategies |-> <<>>, max_results |-> 0,
     results |-> EmptyDict, completed |-> <<>>, hung |-> {}, failures |-> {}]

NoInvocation ==
    [tool |-> "none", outcome |-> "none", response |-> EmptyDict, failures |-> {},
     output_format |-> "none", evaluated |-> 0]

\* the invocation that ended: failures names what went wrong inside it,
\* evaluated is the number of samples whose evaluation returned
Invocation(tool, result, failures, output_format, evaluated) ==
    [tool |-> tool, outcome |-> result.outcome, response |-> result.response,
     failures |-> failures, output_format |-> output_format, evaluated |-> evaluated]

\* what went wrong in a create-and-retrieve: the factory refused the name, the
\* retrieve raised, or an adapter failed and the strategy went on
RetrievalFailures(retrieval) ==
    CASE retrieval.outcome = "ValueError" -> {"factory"}
      [] retrieval.outcome = "raised" -> {"retriever"}
      [] retrieval.adapter_failed -> {"adapter"}
      [] OTHER -> {}

InitMcp ==
    /\ retriever = NoRetriever
    /\ cache = EmptyDict
    /\ ens = NoEnsemble
    /\ hist = <<>>
    /\ run = NoCompare
    /\ last = NoInvocation

\* a read of retriever://{strategy}/{query}
RetrievalResource ==
    /\ run.phase = "idle"
    /\ \E strategy \in McpStrategies, query \in McpQuestions :
        \E retrieval \in FactoryRetrievals(strategy, query, ResourceK) :
            last' = Invocation("retrieval_resource",
                               retrieval_resource(strategy, query, retrieval),
                               RetrievalFailures(retrieval), "none", 0)
    /\ UNCHANGED <<retriever, cache, ens, run, hist>>

\* a call of research_deep
ResearchDeep ==
    /\ run.phase = "idle"
    /\ \E question \in McpQuestions, max_results \in 1..2,
          include_sources \in BOOLEAN, enable_evaluation \in BOOLEAN,
          agent \in AgentBehaviours, ragas \in RagasBehaviours :
        LET scored == /\ agent.create = "agent" /\ ~agent.arun_raised
                      /\ enable_evaluation /\ agent.retrieved_documents # <<>>
        IN  /\ ragas.raised => scored
            /\ last' = Invocation("research_deep",
                            research_deep(question, "vector", max_results,
                                          include_sources, enable_evaluation,
                                          agent, ragas),
                            (IF agent.create # "agent" \/ agent.arun_raised
                             THEN {"agent"} ELSE {})
                            \cup (IF scored /\ ragas.raised THEN {"evaluator"} ELSE {}),
                            "none", 0)
    /\ UNCHANGED <<retriever, cache, ens, run, hist>>

\* a call of evaluate_rag
EvaluateRag ==
    /\ run.phase = "idle"
    /\ \E strategy \in {"vector", "bm25", "unknown"}, output_format \in OutputFormats,
          dataset \in DatasetBehaviours :
        LET samples == dataset.samples
            reached == ~dataset.raised /\ samples # <<>> /\ strategy \in Registered
        IN  last' = Invocation("evaluate_rag",
                        evaluate_rag(strategy, output_format, dataset),
                        (IF dataset.raised THEN {"dataset"} ELSE {})
                        \cup (IF ~dataset.raised /\ samples # <<>> /\ strategy \notin Registered
                              THEN {"factory"} ELSE {})
                        \cup (IF reached /\ \E i \in DOMAIN samples :
                                               samples[i].processing_raised
                              THEN {"retriever"} ELSE {})
                        \cup (IF reached /\ \E i \in DOMAIN samples : samples[i].ragas.raised
                              THEN {"evaluator"} ELSE {}),
                        output_format,
                        IF reached THEN Len(AllScores(samples)) ELSE 0)
    /\ UNCHANGED <<retriever, cache, ens, run, hist>>

\* a call of strategy_compare starts: one run_strategy task per strategy
CompareBegin ==
    /\ run.phase = "idle"
    /\ \E question \in McpQuestions, strategies \in CompareRequests, max_results \in 1..2 :
        run' = [NoCompare EXCEPT !.phase = "comparing", !.question = question,
                                 !.strategies = strategies, !.max_results = max_results]
    /\ last' = NoInvocation
    /\ UNCHANGED <<retriever, cache, ens, hist>>

\* one run_strategy task returns its entry
StrategyTaskReturns ==
    /\ run.phase = "comparing"
    /\ \E i \in DOMAIN run.strategies :
        /\ i \notin DOMAIN run.results
        /\ i \notin run.hung
        /\ \E retrieval \in FactoryRetrievals(run.strategies[i], run.question,
                                              run.max_results) :
            run' = [run EXCEPT
                       !.results = DictUpdate(@, [x \in {i} |->
                                       run_strategy(run.strategies[i], retrieval)]),
                       !.completed = Append(@, i),
                       !.failures = @ \cup RetrievalFailures(retrieval)]
    /\ UNCHANGED <<retriever, cache, last, ens, hist>>

\* the retrieve awaited by one run_strategy task never returns: run_strategy
\* sets no timeout on it
StrategyTaskHangs ==
    /\ run.phase = "comparing"
    /\ \E i \in DOMAIN run.strategies :
        /\ i \notin DOMAIN run.results
        /\ i \notin run.hung
        /\ run.strategies[i] \in AwaitsAdapter
        /\ run' = [run EXCEPT !.hung = @ \cup {i}]
    /\ UNCHANGED <<retriever, cache, last, ens, hist>>

\* asyncio.gather returns once every task has returned; the rest of
\* strategy_compare follows
CompareEnd ==
    /\ run.phase = "comparing"
    /\ DOMAIN run.results = DOMAIN run.strategies
    /\ last' = Invocation("strategy_compare",
                    strategy_compare(run.question, run.strategies,
                                     [i \in DOMAIN run.strategies |-> run.results[i]],
                                     run.completed),
                    run.failures, "none", 0)
    /\ run' = NoCompare
    /\ UNCHANGED <<retriever, cache, ens, hist>>

NextMcp ==
    \/ RetrievalResource
    \/ ResearchDeep
    \/ EvaluateRag
    \/ CompareBegin
    \/ StrategyTaskReturns
    \/ StrategyTaskHangs
    \/ CompareEnd

SpecMcp == InitMcp /\ [][NextMcp]_vars

\* strategy_compare alone, with the scheduling of the event loop: a task that
\* can return does return, and the gather resumes once every task has returned
NextCompare ==
    \/ CompareBegin
    \/ StrategyTaskReturns
    \/ StrategyTaskHangs
    \/ CompareEnd

SpecCompare ==
    /\ InitMcp
    /\ [][NextCompare]_vars
    /\ WF_vars(StrategyTaskReturns)
    /\ WF_vars(CompareEnd)

(***************************************************************************)
(* The MCP surface: the shapes of evaluate_rag and the error responses.    *)
(***************************************************************************)
\* the aggregate scores: the four metric means and the overall score
CarriesAggregates(results) ==
    /\ "aggregate_scores" \in DOMAIN results
    /\ SummaryKeys \subseteq DOMAIN results["aggregate_scores"]

\* C18: when the evaluation returned for at least one sample, evaluate_rag
\* returns the aggregate scores in each output format: in the summary format
\* the response has overall_score and the four metric means and no error, in
\* the detailed format they are under summary, in the json format at the top.
C18_AggregatesInEveryFormat ==
    (last.tool = "evaluate_rag" /\ last.evaluated >= 1)
        => /\ "error" \notin DOMAIN last.response
           /\ CASE last.output_format = "summary" ->
                    /\ {"overall_score", "metrics"} \subseteq DOMAIN last.response
                    /\ (SummaryKeys \ {"overall_score"})
                            \subseteq DOMAIN last.response["metrics"]
                [] last.output_format = "detailed" ->
                    /\ "summary" \in DOMAIN last.response
                    /\ CarriesAggregates(last.response["summary"])
                [] OTHER -> CarriesAggregates(last.response)

\* C14: a strategy_compare that has started its strategies returns, whatever
\* a strategy does: a strategy that does not finish is reported as failed and
\* the results of the others are not held back.
C14_CompareReturns ==
    (run.phase = "comparing") ~> (run.phase = "idle")

\* the keys that go with the error key in the error response of a handler
ContextFields(tool) ==
    CASE tool = "retrieval_resource" ->
            {"query", "strategy", "retrieval_time_ms", "resource_type"}
      [] tool = "research_deep" ->
            {"question", "strategy_attempted", "processing_time_seconds"}
      [] tool = "evaluate_rag" -> {"strategy", "evaluation_time_seconds"}
      [] OTHER -> {"question", "strategies_attempted", "comparison_time_seconds"}

\* the failures that arrive at the handler of a tool as an exception; the others
\* are absorbed below it
ReachHandler(tool) ==
    CASE tool = "retrieval_resource" -> {"factory", "retriever"}
      [] tool = "research_deep" -> {"agent"}
      [] tool = "evaluate_rag" -> {"dataset", "factory"}
      [] OTHER -> {}

MaxCandidates == 3   \* candidates handed to _rerank_documents
MaxLines == 2        \* lines of a reply
MaxWords == 2        \* words of a line

ReplyWords ==
    {Word("digits", 1), Word("digits", 2), Word("digits", 3), Word("punct", 2),
     Word("other", 0), Word("superscript", 2)}

Replies == SeqsUpTo(SeqsUpTo(ReplyWords, MaxWords), MaxLines)

\* candidates with pairwise different content
CandidatePool == <<DocA, DocB, DocN, DocT, DocM>>

Candidates(n) == SubSeq(CandidatePool, 1, n)

NotParsed ==
    [parsed |-> FALSE, raised |-> FALSE, ranking |-> <<>>, reranked |-> <<>>,
     call |-> "none", k |-> 0, llm |-> "none", outcome |-> "none"]

\* page_content of each document of a list
Contents(documents) == [i \in DOMAIN documents |-> documents[i].page_content]

InitRerank ==
    /\ retriever = NoRetriever
    /\ cache = EmptyDict
    /\ ens = NoEnsemble
    /\ run = Idle
    /\ last = NotParsed
    /\ hist \in [reply : Replies, n : 0..MaxCandidates]

\* _rerank_documents(query, documents) with an LLM that answers hist.reply
RerankDocuments ==
    /\ last.call = "none"
    /\ hist.n >= 1
    /\ LET documents == Candidates(hist.n)
           raised == ParseRaises(hist.reply, 1, hist.n, <<>>)
           reranked == rerank_documents("llm", documents,
                                        [raised |-> FALSE, reply |-> hist.reply])
       IN  last' = [NotParsed EXCEPT
                    !.call = "rerank_documents", !.parsed = TRUE, !.raised = raised,
                    !.ranking = IF raised THEN <<>>
                                ELSE parse_ranking_response(hist.reply, hist.n),
                    !.reranked = Contents(reranked)]
    /\ UNCHANGED <<retriever, cache, ens, run, hist>>

\* what self._llm is after _ensure_components_initialized and what its ainvoke
\* does: get_llm() failed, the call raises, or the call answers
LlmStates == {"unavailable", "raises", "answers"}

\* retrieve(query) on a RerankRetriever(k=self_k) whose base retriever returns
\* hist.n candidates
RerankRetrieve ==
    /\ last.call = "none"
    /\ \E self_k \in 1..MaxK, llm_state \in LlmStates, caching \in BOOLEAN :
        LET initial == [outcome |-> "returned", docs |-> Candidates(hist.n)]
            llm == IF llm_state = "unavailable" THEN "None" ELSE "llm"
            llm_answer == IF llm_state = "answers"
                          THEN [raised |-> FALSE, reply |-> hist.reply] ELSE LlmRaises
            r == retrieve(StrategyName("rerank"), "q1", self_k, caching, cache, TRUE,
                          RerankRetriever_impl("vector", initial, llm, llm_answer,
                                               self_k, "vector"))
        IN  last' = [NotParsed EXCEPT
                        !.call = "retrieve", !.k = self_k, !.llm = llm_state,
                        !.outcome = r.outcome, !.reranked = Contents(r.docs)]
    /\ UNCHANGED <<retriever, cache, ens, run, hist>>

NextRerank == RerankDocuments \/ RerankRetrieve

SpecRerank == InitRerank /\ [][NextRerank]_vars

\* the words of a reply in reading order
RECURSIVE Flatten(_)
Flatten(lines) == IF lines = <<>> THEN <<>> ELSE Head(lines) \o Flatten(Tail(lines))

\* the in-range integers of a reply in reading order, repeats skipped
RECURSIVE ReadingOrder(_, _, _)
ReadingOrder(words, n, ranking) ==
    IF words = <<>> THEN ranking
    ELSE ReadingOrder(Tail(words), n,
            IF /\ Head(words).kind \in {"digits", "punct"}
               /\ Head(words).num \in 1..n
               /\ Head(words).num \notin Range(ranking)
            THEN Append(ranking, Head(words).num) ELSE ranking)

IsPermutation(ranking, n) == Len(ranking) = n /\ Range(ranking) = 1..n

\* C22: whatever the LLM replies and for every number n >= 1 of candidates,
\* the parsed ranking is the in-range integers of the reply in reading order
\* with repeats skipped, followed by the missing indices, a permutation of
\* 1..n, and the reranked list holds every candidate exactly once.
C22_RankingInReadingOrder ==
    last.parsed =>
        /\ ~last.raised
        /\ last.ranking = FillMissing(ReadingOrder(Flatten(hist.reply), hist.n, <<>>),
                                      1, hist.n)
        /\ IsPermutation(last.ranking, hist.n)
        /\ Len(last.reranked) = hist.n
        /\ Range(last.reranked) = {Candidates(hist.n)[i].page_content : i \in 1..hist.n}

\* C23: when the reranking LLM is unavailable or its call fails, or when the
\* base retrieval yields at most one candidate, retrieve on the rerank strategy
\* returns the candidates of the base strategy in the base order, truncated to
\* k, and raises nothing.
C23_FallbackKeepsBaseOrder ==
    (last.call = "retrieve" /\ (last.llm \in {"unavailable", "raises"} \/ hist.n <= 1))
        => /\ last.outcome = "returned"
           /\ last.reranked = Take(Contents(Candidates(hist.n)), last.k)

\* the LLM call failed on more than k candidates and the first k came back
C23_LlmFailedOnSeveral ==
    /\ last.call = "retrieve" /\ last.llm = "raises"
    /\ hist.n >= 2 /\ hist.n > last.k
    /\ last.outcome = "returned"
    /\ last.reranked = Take(Contents(Candidates(hist.n)), last.k)

(***************************************************************************)
(* The result of the multi-query strategy (specification Spec).            *)
(***************************************************************************)
\* C24: the result of a retrieve on the multi-query strategy, made with the
\* LLM that writes the variants available, holds no two documents with the same
\* first 500 characters of content (it is the union of the variants' hits with
\* one document kept per identity, in the order of first appearance, at most k
\* of them).
C24_OnePerIdentity ==
    (/\ last.strategy = StrategyName("multi_query") /\ last.outcome = "returned"
     /\ retriever.llm # "None")
        => /\ Len(last.docs) <= last.k
           /\ \A i, j \in DOMAIN last.docs :
                Prefix500(last.docs[i]) = Prefix500(last.docs[j]) => i = j

(***************************************************************************)
(* The order of the fused list (retrievers/ensemble.py).                   *)
(*                                                                         *)
(* In the specification SpecFusion, ens is an EnsembleRetriever whose      *)
(* sub-retrievers are initialized, hist holds what the sub-strategies      *)
(* answered, as the items [strategy, docs] of strategy_results in the      *)
(* configured order, and last the documents _retrieve_impl returns for     *)
(* them; the other variables are not used.                                 *)
(***************************************************************************)
DocC == [page_content |-> <<"c", "x", "t">>, metadata |-> [source |-> "s3"]]

FusionNames == <<"bm25", "vector", "rerank">>

Item(strategy, docs) == [strategy |-> strategy, docs |-> docs]

\* A -> [d1, d2, d3], B -> [d2, d4], C -> [d1, d5]
ExampleResults ==
    <<Item("bm25", <<DocA, DocB, DocN>>), Item("vector", <<DocB, DocM>>),
      Item("rerank", <<DocA, DocC>>)>>

FusionInputs ==
    {ExampleResults} \cup
    {[s \in DOMAIN lists |-> Item(FusionNames[s], lists[s])] :
        lists \in SeqsUpTo(SeqsUpTo({DocA, DocB, DocM}, MaxSubHits), Len(FusionNames)) \ {<<>>}}

NotFused == [fused |-> FALSE, docs |-> <<>>]

InitFusion ==
    /\ retriever = NoRetriever
    /\ cache = EmptyDict
    /\ run = Idle
    /\ last = NotFused
    /\ hist \in FusionInputs
    /\ \E self_k \in 1..MaxListLen, weights \in {EmptyDict, [vector |-> 2]} :
        ens = [k |-> self_k, enable_parallel |-> TRUE,
               strategies |-> [s \in DOMAIN hist |-> hist[s].strategy],
               strategy_weights |-> weights,
               retrievers |-> {hist[s].strategy : s \in DOMAIN hist},
               initialized |-> TRUE]

\* steps 2 and 3 of EnsembleRetriever._retrieve_impl on strategy_results
FuseResults ==
    /\ ~last.fused
    /\ last' = [fused |-> TRUE, docs |-> EnsembleRetriever_impl(ens, hist).docs]
    /\ UNCHANGED <<retriever, cache, ens, run, hist>>

NextFusion == FuseResults

SpecFusion == InitFusion /\ [][NextFusion]_vars

\* the documents of strategy_results in the order they are met: sub-strategies
\* in the configured order, each list in rank order
RECURSIVE Encountered(_)
Encountered(strategy_results) ==
    IF strategy_results = <<>> THEN <<>>
    ELSE Head(strategy_results).docs \o Encountered(Tail(strategy_results))

\* where a document identity is met first
FirstMet(doc) ==
    LET met == Encountered(hist)
    IN  CHOOSE i \in DOMAIN met :
            /\ get_document_id(met[i]) = get_document_id(doc)
            /\ \A j \in 1..(i - 1) : get_document_id(met[j]) # get_document_id(doc)

\* C25: the documents an ensemble returns are in non-increasing order of
\* rrf_score, among equal scores the document met first (sub-strategies in the
\* configured order, each list in rank order) comes first, and for
\* A -> [d1, d2, d3], B -> [d2, d4], C -> [d1, d5] with unit weights and k = 3
\* the result is [d1, d2, d4].
C25_ScoreThenFirstMet ==
    last.fused =>
        /\ \A i, j \in DOMAIN last.docs : i < j =>
            \/ last.docs[i].metadata.rrf_score > last.docs[j].metadata.rrf_score
            \/ /\ last.docs[i].metadata.rrf_score = last.docs[j].metadata.rrf_score
               /\ FirstMet(last.docs[i]) < FirstMet(last.docs[j])
        /\ (hist = ExampleResults /\ ens.strategy_weights = EmptyDict /\ ens.k = 3)
            => Contents(last.docs) = Contents(<<DocA, DocB, DocM>>)

\* the example has been fused: d4 and d5 have equal scores and d4 is returned
C25_ExampleFused ==
    /\ last.fused /\ hist = ExampleResults
    /\ ens.strategy_weights = EmptyDict /\ ens.k = 3
    /\ Contents(last.docs) = Contents(<<DocA, DocB, DocM>>)
    /\ \E f \in Range(apply_rrf_fusion(hist, ens.strategy_weights)) :
            f.doc = DocC /\ f.score = last.docs[3].metadata.rrf_score

(***************************************************************************)
(* The query variants of the multi-query strategy                          *)
(* (MultiQueryRetriever.get_generated_queries).                            *)
(*                                                                         *)
(* A line of the LLM's reply is a string; StripLine is what                *)
(* line.strip() followed by lstrip('0123456789.- ').strip() leaves of it.  *)
(* In the specification SpecQueries, hist holds the query, num_queries and *)
(* the reply the LLM would give, and last the list returned; the other     *)
(* variables are not used.                                                 *)
(***************************************************************************)
MaxReplyLines == 3

ReplyLines == {"", "You are an AI", "1. v1", "v2", "q1", "3 q1"}

\* line.startswith(('You are', 'Given', 'Make', 'Original'))
IsPromptEcho(line) == line = "You are an AI"

\* line.lstrip('0123456789.- ').strip()
StripLine(line) ==
    CASE line = "1. v1" -> "v1"
      [] line = "3 q1" -> "q1"
      [] OTHER -> line

\* the loop over response.content.split('\n')
RECURSIVE ParseQueries(_, _, _)
ParseQueries(lines, i, queries) ==
    IF i > Len(lines) THEN queries
    ELSE ParseQueries(lines, i + 1,
            IF lines[i] # "" /\ ~IsPromptEcho(lines[i]) /\ StripLine(lines[i]) # ""
            THEN Append(queries, StripLine(lines[i])) ELSE queries)

\* MultiQueryRetriever.get_generated_queries; llm is self._llm after
\* _ensure_retriever_initialized, reply what self._llm.ainvoke does
get_generated_queries(query, num_queries, llm, reply) ==
    IF llm = "None" THEN <<query>>
    ELSE IF FormatPrompt(num_queries).raised THEN <<query>>
    ELSE IF reply.raised THEN <<query>>
    ELSE LET queries == ParseQueries(reply.lines, 1, <<>>)
             with_original == IF query \notin Range(queries)
                              THEN <<query>> \o queries ELSE queries
         IN  Take(with_original, num_queries + 1)

NoQueries == [called |-> FALSE, llm |-> "none", queries |-> <<>>]

InitQueries ==
    /\ retriever = NoRetriever
    /\ cache = EmptyDict
    /\ ens = NoEnsemble
    /\ run = Idle
    /\ last = NoQueries
    /\ hist \in [query : {"q1", "3 q1"}, num_queries : 1..2,
                 lines : SeqsUpTo(ReplyLines, MaxReplyLines)]

\* get_generated_queries(query) on a MultiQueryRetriever
GetGeneratedQueries ==
    /\ ~last.called
    /\ \E llm_state \in LlmStates :
        last' = [called |-> TRUE, llm |-> llm_state,
                 queries |-> get_generated_queries(hist.query, hist.num_queries,
                                IF llm_state = "unavailable" THEN "None" ELSE "llm",
                                [raised |-> llm_state = "raises", lines |-> hist.lines])]
    /\ UNCHANGED <<retriever, cache, ens, run, hist>>

NextQueries == GetGeneratedQueries

SpecQueries == InitQueries /\ [][NextQueries]_vars

MaxInFlight == 2     \* tasks that call the retriever

\* the k argument of similarity_search_with_score_threshold; 0 stands for None
OverrideKs == {0, MaxK + 1}

FreeTask == [phase |-> "free", kind |-> "none", original_k |-> 0,
             original_threshold |-> 0, threshold |-> 0, k_sent |-> 0]

NoneCompleted == [kind |-> "none", k_sent |-> 0, threshold |-> 0, outcome |-> "none",
                  num_docs |-> 0]

InitOverride ==
    /\ cache = EmptyDict
    /\ ens = NoEnsemble
    /\ last = NoneCompleted
    /\ run = [t \in 1..MaxInFlight |-> FreeTask]
    /\ hist \in [k : 1..MaxK, similarity_threshold : SimilarityScores]
    /\ retriever = [strategy |-> "vector", k |-> hist.k,
                    similarity_threshold |-> hist.similarity_threshold,
                    enable_caching |-> FALSE, vector_store |-> "None"]

\* similarity_search_with_score_threshold(query, score_threshold, k) up to the
\* await in _retrieve_impl; with no vector store _retrieve_impl returns [] and
\* the finally clause restores both fields at once
OverrideBegin ==
    \E t \in 1..MaxInFlight, k \in OverrideKs, score_threshold \in SimilarityScores,
       connect_ok \in BOOLEAN :
        LET original_k == retriever.k
            original_threshold == retriever.similarity_threshold
            self_k == IF k # 0 THEN k ELSE retriever.k
            store == ensure_vector_store(retriever.vector_store, connect_ok)
        IN  /\ run[t].phase = "free"
            /\ IF store = "None"
               THEN /\ retriever' = [retriever EXCEPT !.k = original_k,
                                        !.similarity_threshold = original_threshold,
                                        !.vector_store = store]
                    /\ last' = [kind |-> "override", k_sent |-> 0,
                                threshold |-> score_threshold,
                                outcome |-> "returned", num_docs |-> 0]
                    /\ run' = run
               ELSE /\ retriever' = [retriever EXCEPT !.k = self_k,
                                        !.similarity_threshold = score_threshold,
                                        !.vector_store = store]
                    /\ run' = [run EXCEPT ![t] =
                                [phase |-> "awaiting", kind |-> "override",
                                 original_k |-> original_k,
                                 original_threshold |-> original_threshold,
                                 threshold |-> score_threshold, k_sent |-> self_k]]
                    /\ last' = last
            /\ UNCHANGED <<cache, ens, hist>>

\* the vector store answers the call: the rest of _retrieve_impl, then the
\* finally clause of similarity_search_with_score_threshold
OverrideEnd ==
    \E t \in 1..MaxInFlight :
        /\ run[t].phase = "awaiting" /\ run[t].kind = "override"
        /\ \E answer \in StoreAnswers(run[t].k_sent) :
            LET impl == VectorRetriever_impl(retriever.vector_store, answer,
                                             run[t].threshold, DefaultCollection)
            IN  last' = [kind |-> "override", k_sent |-> run[t].k_sent,
                         threshold |-> run[t].threshold,
                         outcome |-> IF impl.raised THEN "raised" ELSE "returned",
                         num_docs |-> Len(impl.docs)]
        /\ retriever' = [retriever EXCEPT !.k = run[t].original_k,
                            !.similarity_threshold = run[t].original_threshold]
        /\ run' = [run EXCEPT ![t] = FreeTask]
        /\ UNCHANGED <<cache, ens, hist>>

\* retrieve(query) up to the await in _retrieve_impl
RetrieveBegin ==
    \E t \in 1..MaxInFlight, connect_ok \in BOOLEAN :
        LET store == ensure_vector_store(retriever.vector_store, connect_ok)
        IN  /\ run[t].phase = "free"
            /\ retriever' = [retriever EXCEPT !.vector_store = store]
            /\ IF store = "None"
               THEN /\ last' = [kind |-> "retrieve", k_sent |-> 0,
                                threshold |-> retriever.similarity_threshold,
                                outcome |-> "returned", num_docs |-> 0]
                    /\ run' = run
               ELSE /\ run' = [run EXCEPT ![t] =
                                [FreeTask EXCEPT !.phase = "awaiting", !.kind = "retrieve",
                                    !.threshold = retriever.similarity_threshold,
                                    !.k_sent = retriever.k]]
                    /\ last' = last
            /\ UNCHANGED <<cache, ens, hist>>

\* the vector store answers a retrieve: the rest of _retrieve_impl and of
\* BaseRetriever.retrieve, which caps the list at the k the instance has now
RetrieveEnd ==
    \E t \in 1..MaxInFlight, redis_up \in BOOLEAN :
        /\ run[t].phase = "awaiting" /\ run[t].kind = "retrieve"
        /\ \E answer \in StoreAnswers(run[t].k_sent) :
            LET r == retrieve(StrategyName("vector"), "q1", retriever.k,
                              retriever.enable_caching, cache, redis_up,
                              VectorRetriever_impl(retriever.vector_store, answer,
                                                   run[t].threshold, DefaultCollection))
            IN  /\ cache' = r.store
                /\ last' = [kind |-> "retrieve", k_sent |-> run[t].k_sent,
                            threshold |-> run[t].threshold,
                            outcome |-> r.outcome, num_docs |-> Len(r.docs)]
        /\ run' = [run EXCEPT ![t] = FreeTask]
        /\ UNCHANGED <<retriever, ens, hist>>

NextOverride == OverrideBegin \/ OverrideEnd \/ RetrieveBegin \/ RetrieveEnd

SpecOverride == InitOverride /\ [][NextOverride]_vars

\* C27: once every call on the retriever has completed, k and
\* similarity_threshold have the values given at construction, and a retrieve
\* that completes, concurrently with a similarity_search_with_score_threshold
\* or not, has asked the vector store for the configured k and filtered with
\* the configured threshold.
C27_OverrideNotObservable ==
    /\ (\A t \in 1..MaxInFlight : run[t].phase = "free")
        => /\ retriever.k = hist.k
           /\ retriever.similarity_threshold = hist.similarity_threshold
    /\ (last.kind = "retrieve" /\ last.k_sent # 0)
        => /\ last.k_sent = hist.k
           /\ last.threshold = hist.similarity_threshold

(***************************************************************************)
(* Cache accesses of the retrievers a strategy delegates to.               *)
(*                                                                         *)
(* In the specification SpecDelegation, retriever is a rerank, multi-query *)
(* or ensemble retriever (the ensemble over bm25 and vector), hist what    *)
(* the vector store answers, and last the cache accesses of one retrieve:  *)
(* those of the retriever itself and those of the retrievers it created    *)
(* and delegated to.  A cache access is counted where retrieve enters the  *)
(* branch "if self.enable_caching" and calls the cache client.             *)
(***************************************************************************)
\* BaseRetriever.__init__(..., enable_caching: bool = True, ...)
DefaultEnableCaching == TRUE

\* RetrieverFactory.create(self.base_retriever_strategy, k=..., collection_name=...)
\* in RerankRetriever and MultiQueryRetriever: enable_caching is not passed on
BaseRetrieverCaching(enable_caching) == DefaultEnableCaching

\* RetrieverFactory.create(strategy, k=strategy_k, collection_name=...,
\* enable_caching=self.enable_caching) in EnsembleRetriever
MemberCaching(enable_caching) == enable_caching

DelegatingStrategies == {"rerank", "multi_query", "ensemble"}

NotDelegated ==
    [called |-> FALSE, strategy |-> "none", caching |-> FALSE, outcome |-> "none",
     num_docs |-> 0, cache_read |-> FALSE, cache_write |-> FALSE,
     delegated_read |-> FALSE, delegated_write |-> FALSE]

InitDelegation ==
    /\ cache = EmptyDict
    /\ ens = NoEnsemble
    /\ run = Idle
    /\ last = NotDelegated
    /\ hist \in StoreAnswers(MaxHits)
    /\ \E strategy \in DelegatingStrategies, self_k \in 1..MaxK, caching \in BOOLEAN :
        retriever = [strategy |-> strategy, k |-> self_k, enable_caching |-> caching]

\* MultiQueryRetriever's lazy fields after _ensure_retriever_initialized and,
\* no multi-query retriever having been built, _ensure_base_retriever
MultiQueryBase(self_k, llm_ok) ==
    ensure_base_retriever(
        ensure_retriever_initialized(
            [llm |-> "None", base_k |-> 0, vector_store |-> "None", mqr |-> "None"],
            "vector", self_k, llm_ok, TRUE),
        self_k)

\* the retrieve(query) calls the retriever makes on the retrievers it
\* delegates to, each with the caching flag the retriever created it with
Delegated(r, query, redis_up, llm_ok) ==
    LET vector(self_k, caching) ==
            retrieve(StrategyName("vector"), query, self_k, caching, cache, redis_up,
                     VectorRetriever_impl("store", hist, 0, DefaultCollection))
        bm25(self_k, caching) ==
            retrieve(StrategyName("bm25"), query, self_k, caching, cache, redis_up,
                     BM25Retriever_impl(EnsureIndexLoaded(get_document_store, <<>>),
                                        <<>>, self_k))
    IN  CASE r.strategy = "rerank" ->
                <<vector(InitialK(r.k), BaseRetrieverCaching(r.enable_caching))>>
          [] r.strategy = "multi_query" ->
                <<vector(MultiQueryBase(r.k, llm_ok).base_k,
                         BaseRetrieverCaching(r.enable_caching))>>
          [] OTHER ->
                <<bm25(StrategyK(r.k), MemberCaching(r.enable_caching)),
                  vector(StrategyK(r.k), MemberCaching(r.enable_caching))>>

\* retrieve(query) on the retriever
DelegatingRetrieve ==
    /\ ~last.called
    /\ \E query \in Queries, redis_up \in BOOLEAN, llm_ok \in BOOLEAN :
        LET delegated == Delegated(retriever, query, redis_up, llm_ok)
            impl ==
                CASE retriever.strategy = "rerank" ->
                        RerankRetriever_impl("vector", delegated[1],
                            IF llm_ok THEN "llm" ELSE "None", LlmRaises,
                            retriever.k, "vector")
                  [] retriever.strategy = "multi_query" ->
                        MultiQueryRetriever_impl(
                            MultiQueryBase(retriever.k, llm_ok),
                            ImplRaised, delegated[1], retriever.k, "vector")
                  [] OTHER ->
                        EnsembleRetriever_impl(
                            [k |-> retriever.k, strategies |-> <<"bm25", "vector">>,
                             strategy_weights |-> EmptyDict,
                             retrievers |-> {"bm25", "vector"}],
                            <<Item("bm25", delegated[1].docs),
                              Item("vector", delegated[2].docs)>>)
            r == retrieve(StrategyName(retriever.strategy), query, retriever.k,
                          retriever.enable_caching, cache, redis_up, impl)
        IN  /\ cache' = r.store
            /\ last' = [called |-> TRUE, strategy |-> retriever.strategy,
                        caching |-> retriever.enable_caching,
                        outcome |-> r.outcome, num_docs |-> Len(r.docs),
                        cache_read |-> r.cache_read, cache_write |-> r.cache_write,
                        delegated_read |->
                            \E i \in DOMAIN delegated : delegated[i].cache_read,
                        delegated_write |->
                            \E i \in DOMAIN delegated : delegated[i].cache_write]
    /\ UNCHANGED <<retriever, ens, run, hist>>

NextDelegation == DelegatingRetrieve

SpecDelegation == InitDelegation /\ [][NextDelegation]_vars

MaxRetrieves == 2

BM25Scores == {0, 1, 2}

WithRef(doc, ref) ==
    [page_content |-> doc.page_content, metadata |-> doc.metadata, ref |-> ref]

\* the objects behind a list of references
Deref(heap, refs) == [i \in DOMAIN refs |-> heap[refs[i]]]

\* the heap after the objects of docs have been given the metadata docs carry
WriteMetadata(heap, docs) ==
    [ref \in DOMAIN heap |->
        IF \E j \in DOMAIN docs : docs[j].ref = ref
        THEN [heap[ref] EXCEPT !.metadata =
                docs[CHOOSE j \in DOMAIN docs : docs[j].ref = ref].metadata]
        ELSE heap[ref]]

InitFrame ==
    /\ cache = EmptyDict
    /\ ens = NoEnsemble
    /\ run = Idle
    /\ last = <<>>
    /\ \E docs \in SeqsUpTo(StoreDocs, MaxStored) :
        hist = [heap |-> [i \in DOMAIN docs |-> WithRef(docs[i], i)],
                documents |-> [i \in DOMAIN docs |-> i],
                ingested |-> docs]
    /\ \E strategy \in {"bm25", "vector"}, self_k \in 1..MaxK :
        retriever = [strategy |-> strategy, k |-> self_k, enable_caching |-> TRUE,
                     bm25_index |-> "None", documents |-> <<>>, built_from |-> <<>>]

\* retrieve(query) on a BM25Retriever
FrameRetrieveBM25 ==
    /\ retriever.strategy = "bm25"
    /\ Len(last) < MaxRetrieves
    /\ LET loaded == ensure_index_loaded(retriever, get_document_store, hist.documents)
       IN  \E query \in Queries, redis_up \in BOOLEAN,
              scores \in [DOMAIN loaded.documents -> BM25Scores] :
            LET impl == BM25Retriever_impl(
                            [loaded EXCEPT !.documents = Deref(hist.heap, loaded.documents)],
                            scores, retriever.k)
                r == retrieve(StrategyName("bm25"), query, retriever.k,
                              retriever.enable_caching, cache, redis_up, impl)
            IN  /\ cache' = r.store
                /\ retriever' = [retriever EXCEPT !.bm25_index = loaded.bm25_index,
                                                  !.documents = loaded.documents,
                                                  !.built_from = loaded.built_from]
                /\ hist' = [hist EXCEPT !.heap = WriteMetadata(hist.heap, impl.docs)]
                /\ last' = Append(last, [query |-> query, outcome |-> r.outcome,
                                         docs |-> r.docs])
    /\ UNCHANGED <<ens, run>>

\* retrieve(query) on a VectorRetriever with a connected vector store
FrameRetrieveVector ==
    /\ retriever.strategy = "vector"
    /\ Len(last) < MaxRetrieves
    /\ \E query \in Queries, redis_up \in BOOLEAN, answer \in StoreAnswers(retriever.k) :
        LET found == [i \in DOMAIN answer.hits |->
                        Hit(WithRef(answer.hits[i].doc, Len(hist.heap) + i),
                            answer.hits[i].score)]
            heap == hist.heap \o [i \in DOMAIN found |-> found[i].doc]
            impl == VectorRetriever_impl("store", [answer EXCEPT !.hits = found],
                                         0, DefaultCollection)
            r == retrieve(StrategyName("vector"), query, retriever.k,
                          retriever.enable_caching, cache, redis_up, impl)
        IN  /\ cache' = r.store
            /\ hist' = [hist EXCEPT !.heap = WriteMetadata(heap, impl.docs)]
            /\ last' = Append(last, [query |-> query, outcome |-> r.outcome,
                                     docs |-> r.docs])
    /\ UNCHANGED <<retriever, ens, run>>

NextFrame == FrameRetrieveBM25 \/ FrameRetrieveVector

SpecFrame == InitFrame /\ [][NextFrame]_vars

====
